---- MODULE Spec2Model ----
(***************************************************************************)
(* Model of goflash/validator: the validate package (error -> field map    *)
(* conversion, message-function selection, request-scoped context values,  *)
(* the structured decoder-error text parser) and the ValidatorI18n         *)
(* middleware.                                                             *)
(*                                                                         *)
(* Go strings are modelled as sequences of one-character strings, so that  *)
(* the text operations of the source (Index, TrimSpace, Split, slicing)    *)
(* are computed as the code computes them.  Go maps are functions whose    *)
(* domain is the key set.                                                  *)
(***************************************************************************)
EXTENDS Integers, Sequences, FiniteSets, TLC

(***************************************************************************)
(* Go string primitives used by the source (package strings, slicing).     *)
(***************************************************************************)

\* unicode.IsSpace restricted to the characters of the model
Whitespace == {" ", "\t", "\n", "\r", "\f"}

Digits == {"0","1","2","3","4","5","6","7","8","9"}

UpperLetters == <<"A","B","C","D","E","F","G","H","I","J","K","L","M","N","O","P","Q","R","S","T","U","V","W","X","Y","Z">>

LowerLetters == <<"a","b","c","d","e","f","g","h","i","j","k","l","m","n","o","p","q","r","s","t","u","v","w","x","y","z">>

Range(f) == {f[i] : i \in DOMAIN f}

\* s[a:b] and s[a:] of Go (0-based, half-open)
Slice(s, a, b) == SubSeq(s, a + 1, b)

SliceFrom(s, a) == SubSeq(s, a + 1, Len(s))

HasPrefixAt(s, sub, i) == i + Len(sub) <= Len(s) /\ \A j \in 1..Len(sub) : s[i + j] = sub[j]

\* strings.HasPrefix
HasPrefix(s, sub) == HasPrefixAt(s, sub, 0)

RECURSIVE IndexFrom(_, _, _)
IndexFrom(s, sub, i) ==
    IF i + Len(sub) > Len(s) THEN -1
    ELSE IF HasPrefixAt(s, sub, i) THEN i
    ELSE IndexFrom(s, sub, i + 1)

\* strings.Index: 0-based position of the first occurrence, -1 when absent
Index(s, sub) == IndexFrom(s, sub, 0)

\* strings.ContainsAny
ContainsAny(s, chars) == \E i \in 1..Len(s) : s[i] \in chars

RECURSIVE TrimLeftSet(_, _)
TrimLeftSet(s, cut) ==
    IF s # <<>> /\ Head(s) \in cut THEN TrimLeftSet(Tail(s), cut) ELSE s

RECURSIVE TrimRight(_, _)
\* strings.TrimRight(s, cutset)
TrimRight(s, cut) ==
    IF s # <<>> /\ s[Len(s)] \in cut THEN TrimRight(SubSeq(s, 1, Len(s) - 1), cut) ELSE s

\* strings.Trim(s, cutset)
Trim(s, cut) == TrimRight(TrimLeftSet(s, cut), cut)

\* strings.TrimSpace
TrimSpace(s) == Trim(s, Whitespace)

RECURSIVE Split(_, _)
\* strings.Split(s, sep) for a non-empty separator
Split(s, sep) ==
    LET i == Index(s, sep)
    IN  IF i = -1 THEN <<s>>
        ELSE <<Slice(s, 0, i)>> \o Split(SliceFrom(s, i + Len(sep)), sep)

RECURSIVE FirstSpace(_, _)
FirstSpace(s, i) ==
    IF i >= Len(s) THEN Len(s)
    ELSE IF s[i + 1] \in Whitespace THEN i
    ELSE FirstSpace(s, i + 1)

RECURSIVE Fields(_)
\* strings.Fields: the maximal runs of non-space characters
Fields(s) ==
    LET t == TrimLeftSet(s, Whitespace)
    IN  IF t = <<>> THEN <<>>
        ELSE LET n == FirstSpace(t, 0)
             IN  <<Slice(t, 0, n)>> \o Fields(SliceFrom(t, n))

LowerChar(ch) ==
    IF \E i \in 1..26 : UpperLetters[i] = ch
    THEN LowerLetters[CHOOSE i \in 1..26 : UpperLetters[i] = ch]
    ELSE ch

\* strings.ToLower
ToLower(s) == [i \in 1..Len(s) |-> LowerChar(s[i])]

(***************************************************************************)
(* Go maps: map[string]string as a function on its key set.                *)
(***************************************************************************)

EmptyMap == [k \in {} |-> <<>>]

\* m[k] = v
Put(m, k, v) == [x \in (DOMAIN m) \cup {k} |-> IF x = k THEN v ELSE m[x]]

\* m[k] of Go: the zero value "" for a missing key
Get(m, k) == IF k \in DOMAIN m THEN m[k] ELSE <<>>

(***************************************************************************)
(* String literals of the source.                                          *)
(***************************************************************************)

s_error == <<"_","e","r","r","o","r">>

s_quote == <<"'">>

s_star == <<"*">>

s_newline == <<"\n">>

s_comma == <<",">>

s_expected_type == <<"e","x","p","e","c","t","e","d"," ","t","y","p","e"," ","'">>

s_got_unconvertible == <<"g","o","t"," ","u","n","c","o","n","v","e","r","t","i","b","l","e"," ","t","y","p","e"," ","'">>

s_got == <<"g","o","t"," ">>

s_has_invalid_keys == <<"h","a","s"," ","i","n","v","a","l","i","d"," ","k","e","y","s",":">>

s_expected == <<"e","x","p","e","c","t","e","d"," ">>

s_but_got == <<" ","b","u","t"," ","g","o","t"," ">>

s_invalid_type == <<"i","n","v","a","l","i","d"," ","t","y","p","e">>

s_unexpected == <<"u","n","e","x","p","e","c","t","e","d">>

s_field_validation_errors == <<"f","i","e","l","d"," ","v","a","l","i","d","a","t","i","o","n"," ","e","r","r","o","r","s">>

(***************************************************************************)
(* The structured decoder-error text parser.                               *)
(***************************************************************************)

\* faulty variant of normalizeFieldKey: the key is trimmed before the check
\* for line breaks
normalizeFieldKey_TrimFirst(s) ==
    LET t == TrimSpace(s)
    IN  IF t = <<>> THEN <<>>
        ELSE IF \E i \in 1..Len(t) :
                   ~(t[i] \in {".", "-", "_"} \cup Digits
                              \cup Range(UpperLetters) \cup Range(LowerLetters))
             THEN <<>>
             ELSE t

\* faulty variant of normalizeFieldKey: inner whitespace is removed too
normalizeFieldKey_Squeeze(s) ==
    IF ContainsAny(s, {"\r", "\n"}) THEN <<>>
    ELSE LET t == SelectSeq(s, LAMBDA ch : ch \notin Whitespace)
         IN  IF \E i \in 1..Len(t) :
                    ~(t[i] \in {".", "-", "_"} \cup Digits
                               \cup Range(UpperLetters) \cup Range(LowerLetters))
             THEN <<>>
             ELSE t

\* validate.go:205 normalizeFieldKey
normalizeFieldKey(s) ==
    IF s = <<>> THEN <<>>
    ELSE IF ContainsAny(s, {"\r", "\n"}) THEN <<>>
    ELSE LET t == TrimSpace(s)
         IN  IF t = <<>> THEN <<>>
             ELSE IF \E i \in 1..Len(t) :
                        ~(t[i] \in {".", "-", "_"} \cup Digits
                                   \cup Range(UpperLetters) \cup Range(LowerLetters))
                  THEN <<>>
                  ELSE t

\* validate.go:289-294: the text between the first pair of single quotes
FieldPart(line) ==
    LET start == Index(line, s_quote)
    IN  IF start = -1 THEN EmptyMap
        ELSE LET end == Index(SliceFrom(line, start + 1), s_quote)
             IN  IF end = -1 THEN EmptyMap
                 ELSE Put(EmptyMap, "field", Slice(line, start + 1, start + 1 + end))

\* validate.go:297-303: the expected type
ExpectedPart(line, result) ==
    LET idx == Index(line, s_expected_type)
    IN  IF idx = -1 THEN result
        ELSE LET start == idx + Len(s_expected_type)
                 end == Index(SliceFrom(line, start), s_quote)
             IN  IF end = -1 THEN result
                 ELSE Put(result, "expected", Slice(line, start, start + end))

\* validate.go:306-320: the actual type
GotPart(line, result) ==
    LET idx == Index(line, s_got_unconvertible)
    IN  IF idx # -1
        THEN LET start == idx + Len(s_got_unconvertible)
                 end == Index(SliceFrom(line, start), s_quote)
             IN  IF end = -1 THEN result
                 ELSE Put(result, "got", Slice(line, start, start + end))
        ELSE LET idx2 == Index(line, s_got)
             IN  IF idx2 = -1 THEN result
                 ELSE LET parts == Fields(SliceFrom(line, idx2 + Len(s_got)))
                      IN  IF Len(parts) > 0
                          THEN Put(result, "got", Trim(parts[1], {"'", ","}))
                          ELSE result

\* validate.go:282 parseFieldTypeError; isNil is Go's nil map result
parseFieldTypeError(line) ==
    LET result == GotPart(line, ExpectedPart(line, FieldPart(line)))
    IN  IF Get(result, "field") # <<>>
        THEN [isNil |-> FALSE, m |-> result]
        ELSE [isNil |-> TRUE, m |-> EmptyMap]

\* validate.go:342-345: one comma-separated part of the key list
CleanKey(p) == TrimRight(Trim(TrimSpace(p), {"'", "\""}), {")", " ", "."})

\* validate.go:331 parseInvalidKeys; the empty sequence stands for nil
parseInvalidKeys(line) ==
    LET idx == Index(line, s_has_invalid_keys)
    IN  IF idx = -1 THEN <<>>
        ELSE LET rest == SliceFrom(line, idx + Len(s_has_invalid_keys))
                 parts == Split(rest, s_comma)
             IN  SelectSeq([i \in 1..Len(parts) |-> CleanKey(parts[i])],
                           LAMBDA k : k # <<>>)

RECURSIVE PutMissing(_, _, _)
\* validate.go:268-273: keys not yet present get the given message
PutMissing(result, keys, msg) ==
    IF keys = <<>> THEN result
    ELSE PutMissing(IF Head(keys) \in DOMAIN result THEN result
                    ELSE Put(result, Head(keys), msg),
                    Tail(keys), msg)

\* faulty variant of ParseLine: lines are parsed whether starred or not
ParseLine_AnyLine(result, rawLine) ==
    LET line == TrimSpace(rawLine)
    IN  IF line = <<>> THEN result
        ELSE LET matches == parseFieldTypeError(line)
             IN  IF ~matches.isNil
                 THEN Put(result, Get(matches.m, "field"),
                          IF Get(matches.m, "expected") # <<>> /\ Get(matches.m, "got") # <<>>
                          THEN s_expected \o Get(matches.m, "expected") \o s_but_got
                                   \o Get(matches.m, "got")
                          ELSE s_invalid_type)
                 ELSE PutMissing(result, parseInvalidKeys(line), s_unexpected)

\* validate.go:241-275: the body of the loop over the lines
ParseLine(result, rawLine) ==
    LET line == TrimSpace(rawLine)
    IN  IF line = <<>> \/ ~HasPrefix(line, s_star) THEN result
        ELSE LET matches == parseFieldTypeError(line)
             IN  IF ~matches.isNil
                 THEN LET fieldName == Get(matches.m, "field")
                          expectedType == Get(matches.m, "expected")
                          gotType == Get(matches.m, "got")
                      IN  IF fieldName # <<>>
                          THEN Put(result, fieldName,
                                   IF expectedType # <<>> /\ gotType # <<>>
                                   THEN s_expected \o expectedType \o s_but_got \o gotType
                                   ELSE s_invalid_type)
                          ELSE result
                 ELSE PutMissing(result, parseInvalidKeys(line), s_unexpected)

RECURSIVE ParseLines(_, _)
ParseLines(result, lines) ==
    IF lines = <<>> THEN result
    ELSE ParseLines(ParseLine(result, Head(lines)), Tail(lines))

\* validate.go:235 parseStructuredErrors
parseStructuredErrors(errMsg) == ParseLines(EmptyMap, Split(errMsg, s_newline))

(***************************************************************************)
(* Field errors of the validation library and message functions.           *)
(***************************************************************************)

\* a validator.FieldError as far as the package reads it
FieldError(field, structField, tag, param) ==
    [field |-> field, structField |-> structField, tag |-> tag, param |-> param]

\* a nil func(validator.FieldError) string
Nil == "nil"

\* the message functions an application installs: two constant translators,
\* one that always returns "", one that translates the required tag only
MsgFuncs == {"fES", "fEN", "fEmpty", "fReq"}

Funcs == MsgFuncs \cup {Nil}

\* the call f(fe) of a non-nil message function
Apply(f, fe) ==
    CASE f = "fES" -> <<"E","S","_","M","S","G">>
      [] f = "fEN" -> <<"E","N","_","M","S","G">>
      [] f = "fEmpty" -> <<>>
      [] f = "fReq" -> IF fe.tag = <<"r","e","q","u","i","r","e","d">> THEN <<"R","E","Q","_","M","S","G">> ELSE <<>>

\* faulty variant of defaultMessage: the isbn family shares one entry
defaultMessage_IsbnPrefix(fe) ==
    IF HasPrefix(fe.tag, <<"i","s","b","n">>) THEN <<"m","u","s","t"," ","b","e"," ","a"," ","v","a","l","i","d"," ","I","S","B","N">>
    ELSE IF fe.tag = <<"r","e","q","u","i","r","e","d">> THEN <<"i","s"," ","r","e","q","u","i","r","e","d">>
    ELSE IF fe.tag = <<"m","i","n">> THEN <<"m","u","s","t"," ","b","e"," ","a","t"," ","l","e","a","s","t"," ">> \o fe.param
    ELSE IF fe.tag = <<"m","a","x">> THEN <<"m","u","s","t"," ","b","e"," ","a","t"," ","m","o","s","t"," ">> \o fe.param
    ELSE <<"f","a","i","l","e","d"," ">> \o fe.tag

\* validate.go:357 defaultMessage
defaultMessage(fe) ==
    CASE fe.tag = <<"r","e","q","u","i","r","e","d">> -> <<"i","s"," ","r","e","q","u","i","r","e","d">>
      [] fe.tag = <<"m","i","n">> -> <<"m","u","s","t"," ","b","e"," ","a","t"," ","l","e","a","s","t"," ">> \o fe.param
      [] fe.tag = <<"m","a","x">> -> <<"m","u","s","t"," ","b","e"," ","a","t"," ","m","o","s","t"," ">> \o fe.param
      [] fe.tag = <<"l","e","n">> -> <<"m","u","s","t"," ","b","e"," ","l","e","n","g","t","h"," ">> \o fe.param
      [] fe.tag = <<"e","m","a","i","l">> -> <<"m","u","s","t"," ","b","e"," ","a"," ","v","a","l","i","d"," ","e","m","a","i","l">>
      [] fe.tag = <<"o","n","e","o","f">> -> <<"m","u","s","t"," ","b","e"," ","o","n","e"," ","o","f"," ">> \o fe.param
      [] fe.tag = <<"g","t","e">> -> <<"m","u","s","t"," ","b","e"," ","g","r","e","a","t","e","r"," ","t","h","a","n"," ","o","r"," ","e","q","u","a","l"," ","t","o"," ">> \o fe.param
      [] fe.tag = <<"l","t","e">> -> <<"m","u","s","t"," ","b","e"," ","l","e","s","s"," ","t","h","a","n"," ","o","r"," ","e","q","u","a","l"," ","t","o"," ">> \o fe.param
      [] fe.tag = <<"u","r","l">> -> <<"m","u","s","t"," ","b","e"," ","a"," ","v","a","l","i","d"," ","U","R","L">>
      [] fe.tag = <<"u","u","i","d">> -> <<"m","u","s","t"," ","b","e"," ","a"," ","v","a","l","i","d"," ","U","U","I","D">>
      [] fe.tag = <<"a","l","p","h","a">> -> <<"m","u","s","t"," ","c","o","n","t","a","i","n"," ","o","n","l","y"," ","l","e","t","t","e","r","s">>
      [] fe.tag = <<"a","l","p","h","a","n","u","m">> -> <<"m","u","s","t"," ","c","o","n","t","a","i","n"," ","o","n","l","y"," ","l","e","t","t","e","r","s"," ","a","n","d"," ","n","u","m","b","e","r","s">>
      [] fe.tag = <<"n","u","m","e","r","i","c">> -> <<"m","u","s","t"," ","c","o","n","t","a","i","n"," ","o","n","l","y"," ","n","u","m","b","e","r","s">>
      [] fe.tag = <<"c","o","n","t","a","i","n","s">> -> <<"m","u","s","t"," ","c","o","n","t","a","i","n"," ">> \o fe.param
      [] fe.tag = <<"e","x","c","l","u","d","e","s">> -> <<"m","u","s","t"," ","n","o","t"," ","c","o","n","t","a","i","n"," ">> \o fe.param
      [] fe.tag = <<"s","t","a","r","t","s","w","i","t","h">> -> <<"m","u","s","t"," ","s","t","a","r","t"," ","w","i","t","h"," ">> \o fe.param
      [] fe.tag = <<"e","n","d","s","w","i","t","h">> -> <<"m","u","s","t"," ","e","n","d"," ","w","i","t","h"," ">> \o fe.param
      [] fe.tag = <<"b","a","s","e","6","4">> -> <<"m","u","s","t"," ","b","e"," ","a"," ","v","a","l","i","d"," ","b","a","s","e","6","4"," ","s","t","r","i","n","g">>
      [] fe.tag = <<"j","s","o","n">> -> <<"m","u","s","t"," ","b","e"," ","v","a","l","i","d"," ","J","S","O","N">>
      [] fe.tag = <<"i","p">> -> <<"m","u","s","t"," ","b","e"," ","a"," ","v","a","l","i","d"," ","I","P"," ","a","d","d","r","e","s","s">>
      [] fe.tag = <<"c","i","d","r">> -> <<"m","u","s","t"," ","b","e"," ","a"," ","v","a","l","i","d"," ","C","I","D","R"," ","n","o","t","a","t","i","o","n">>
      [] fe.tag = <<"a","s","c","i","i">> -> <<"m","u","s","t"," ","c","o","n","t","a","i","n"," ","o","n","l","y"," ","A","S","C","I","I"," ","c","h","a","r","a","c","t","e","r","s">>
      [] fe.tag = <<"p","r","i","n","t","a","s","c","i","i">> -> <<"m","u","s","t"," ","c","o","n","t","a","i","n"," ","o","n","l","y"," ","p","r","i","n","t","a","b","l","e"," ","A","S","C","I","I"," ","c","h","a","r","a","c","t","e","r","s">>
      [] fe.tag = <<"m","u","l","t","i","b","y","t","e">> -> <<"m","u","s","t"," ","c","o","n","t","a","i","n"," ","m","u","l","t","i","b","y","t","e"," ","c","h","a","r","a","c","t","e","r","s">>
      [] fe.tag = <<"i","s","c","o","l","o","r">> -> <<"m","u","s","t"," ","b","e"," ","a"," ","v","a","l","i","d"," ","c","o","l","o","r">>
      [] fe.tag = <<"i","s","b","n">> -> <<"m","u","s","t"," ","b","e"," ","a"," ","v","a","l","i","d"," ","I","S","B","N">>
      [] fe.tag = <<"i","s","b","n","1","0">> -> <<"m","u","s","t"," ","b","e"," ","a"," ","v","a","l","i","d"," ","I","S","B","N","-","1","0">>
      [] fe.tag = <<"i","s","b","n","1","3">> -> <<"m","u","s","t"," ","b","e"," ","a"," ","v","a","l","i","d"," ","I","S","B","N","-","1","3">>
      [] OTHER -> <<"f","a","i","l","e","d"," ">> \o fe.tag

(***************************************************************************)
(* Errors handed to the conversion functions.                              *)
(***************************************************************************)

\* the dynamic type of an error value and what the package reads from it:
\*   fes  the elements of a validator.ValidationErrors
\*   m    the map of a validate.FieldErrors
\*   all  All() of a ctx.FieldErrors, entries [field, message]
\*   msg  Error()
Error(type, fes, m, all, msg) ==
    [type |-> type, fes |-> fes, m |-> m, all |-> all, msg |-> msg]

NilError == Error("nil", <<>>, EmptyMap, <<>>, <<>>)

ValidationErrors(fes) == Error("validation", fes, EmptyMap, <<>>, <<>>)

\* validate.go:73-75 FieldErrors and its Error method
DirectFieldErrors(m) == Error("direct", <<>>, m, <<>>, s_field_validation_errors)

CtxFieldErrors(all, msg) == Error("ctx", <<>>, EmptyMap, all, msg)

GenericError(msg) == Error("generic", <<>>, EmptyMap, <<>>, msg)

(***************************************************************************)
(* Request-scoped context values.                                          *)
(***************************************************************************)

\* a context.Context: nil, or a chain of WithValue entries, innermost last
NilCtx == [isNil |-> TRUE, chain |-> <<>>]

\* context.Background()
Background == [isNil |-> FALSE, chain |-> <<>>]

\* context.WithValue(ctx, key, val)
WithValue(ctx, key, val) ==
    [isNil |-> FALSE, chain |-> Append(ctx.chain, [key |-> key, val |-> val])]

RECURSIVE LookupFrom(_, _, _)
LookupFrom(chain, key, i) ==
    IF i = 0 THEN [found |-> FALSE, val |-> Nil]
    ELSE IF chain[i].key = key THEN [found |-> TRUE, val |-> chain[i].val]
    ELSE LookupFrom(chain, key, i - 1)

\* ctx.Value(key): the innermost entry under the key
Value(ctx, key) == LookupFrom(ctx.chain, key, Len(ctx.chain))

\* validate.go:38 WithMessageFunc
WithMessageFunc(ctx, fn) == WithValue(ctx, "ctxKeyMsgFunc", fn)

\* faulty variant of MessageFuncFromContext: the outermost attached function
MessageFuncFromContext_Outermost(ctx) ==
    LET at == {i \in 1..Len(ctx.chain) : ctx.chain[i].key = "ctxKeyMsgFunc"}
    IN  IF ctx.isNil \/ at = {} THEN Nil
        ELSE ctx.chain[CHOOSE i \in at : \A j \in at : i <= j].val

\* validate.go:43 MessageFuncFromContext
MessageFuncFromContext(ctx) ==
    IF ctx.isNil THEN Nil
    ELSE LET v == Value(ctx, "ctxKeyMsgFunc")
         IN  IF v.found THEN v.val ELSE Nil

(***************************************************************************)
(* State.                                                                  *)
(***************************************************************************)

VARIABLES
    input,          \* the error value the application has at hand
    fld,            \* the struct field the application validates
    mapper,         \* a goroutine inside ToFieldErrorsWith, step by step
    messageFunc,    \* validate.go:21 the package-level message function
    lastSet,        \* history: the argument of the latest SetMessageFunc call, and
                    \* whether a non-nil function had been installed before it
    call,           \* the latest conversion call: its arguments and its result
    ctxv,           \* a context the application derives and passes on
    lastWith,       \* history: the argument of the latest WithMessageFunc on ctxv
    got,            \* the latest result of MessageFuncFromContext
    mw,             \* the ValidatorI18n middleware once constructed
    reqs            \* the requests in flight, each with its own flash.Ctx

vars == <<input, fld, mapper, messageFunc, lastSet, call, ctxv, lastWith, got, mw, reqs>>

(***************************************************************************)
(* Conversion of errors into field -> message maps.                        *)
(***************************************************************************)

\* faulty variant of humanMessageWith: the global function is asked before
\* the per-call one
humanMessageWith_GlobalFirst(fe, fn) ==
    LET viaFn == IF fn # Nil THEN <<[f |-> fn, fe |-> fe]>> ELSE <<>>
        viaGlobal == IF messageFunc # Nil THEN <<[f |-> messageFunc, fe |-> fe]>> ELSE <<>>
    IN  IF messageFunc # Nil /\ Apply(messageFunc, fe) # <<>>
        THEN [msg |-> Apply(messageFunc, fe), calls |-> viaGlobal]
        ELSE IF fn # Nil /\ Apply(fn, fe) # <<>>
        THEN [msg |-> Apply(fn, fe), calls |-> viaGlobal \o viaFn]
        ELSE [msg |-> defaultMessage(fe), calls |-> viaGlobal \o viaFn]

\* faulty variant of humanMessageWith: the global function's result is
\* returned even when it is empty
humanMessageWith_EmptyGlobal(fe, fn) ==
    LET viaFn == IF fn # Nil THEN <<[f |-> fn, fe |-> fe]>> ELSE <<>>
        viaGlobal == IF messageFunc # Nil THEN <<[f |-> messageFunc, fe |-> fe]>> ELSE <<>>
    IN  IF fn # Nil /\ Apply(fn, fe) # <<>>
        THEN [msg |-> Apply(fn, fe), calls |-> viaFn]
        ELSE IF messageFunc # Nil
        THEN [msg |-> Apply(messageFunc, fe), calls |-> viaFn \o viaGlobal]
        ELSE [msg |-> defaultMessage(fe), calls |-> viaFn \o viaGlobal]

\* validate.go:188 humanMessageWith: the message, and the message
\* functions invoked to obtain it, in order
humanMessageWith(fe, fn) ==
    LET viaFn == IF fn # Nil THEN <<[f |-> fn, fe |-> fe]>> ELSE <<>>
        viaGlobal == IF messageFunc # Nil THEN <<[f |-> messageFunc, fe |-> fe]>> ELSE <<>>
    IN  IF fn # Nil /\ Apply(fn, fe) # <<>>
        THEN [msg |-> Apply(fn, fe), calls |-> viaFn]
        ELSE IF messageFunc # Nil /\ Apply(messageFunc, fe) # <<>>
        THEN [msg |-> Apply(messageFunc, fe), calls |-> viaFn \o viaGlobal]
        ELSE [msg |-> defaultMessage(fe), calls |-> viaFn \o viaGlobal]

\* faulty variant of FieldKey: no fallback to the struct field name
FieldKey_FieldOnly(fe) == fe.field

\* validate.go:143-146: the key of a field error
FieldKey(fe) == IF fe.field = <<>> THEN fe.structField ELSE fe.field

RECURSIVE handleValidationErrors_FirstWins(_, _, _)
\* faulty variant of handleValidationErrors: a key already in res keeps its
\* message
handleValidationErrors_FirstWins(vErrs, res, fn) ==
    IF vErrs = <<>> THEN res
    ELSE LET fe == Head(vErrs)
             hm == humanMessageWith(fe, fn)
         IN  handleValidationErrors_FirstWins(Tail(vErrs),
                 [m |-> IF FieldKey(fe) \in DOMAIN res.m THEN res.m
                        ELSE Put(res.m, FieldKey(fe), hm.msg),
                  calls |-> res.calls \o hm.calls],
                 fn)

RECURSIVE handleValidationErrors(_, _, _)
\* validate.go:137 handleValidationErrors: res after the loop, with the calls made
handleValidationErrors(vErrs, res, fn) ==
    IF vErrs = <<>> THEN res
    ELSE LET fe == Head(vErrs)
             hm == humanMessageWith(fe, fn)
         IN  handleValidationErrors(Tail(vErrs),
                 [m |-> Put(res.m, FieldKey(fe), hm.msg), calls |-> res.calls \o hm.calls],
                 fn)

RECURSIVE CopyAll(_, _)
\* validate.go:119-125: the entries of All() under their normalized keys
CopyAll(all, m) ==
    IF all = <<>> THEN m
    ELSE LET f == normalizeFieldKey(Head(all).field)
         IN  CopyAll(Tail(all), IF f = <<>> THEN m ELSE Put(m, f, Head(all).message))

\* faulty variant of MergeExtras: a parsed entry replaces the one res holds
MergeExtras_Overwrite(m, extras) ==
    [k \in (DOMAIN m) \cup (DOMAIN extras) |-> IF k \in DOMAIN extras THEN extras[k] ELSE m[k]]

\* validate.go:126-132: extras merged under the keys res does not hold yet
MergeExtras(m, extras) ==
    [k \in (DOMAIN m) \cup (DOMAIN extras) |-> IF k \in DOMAIN m THEN m[k] ELSE extras[k]]

\* validate.go:114 handleCtxFieldErrors
handleCtxFieldErrors(err, m) == MergeExtras(CopyAll(err.all, m), parseStructuredErrors(err.msg))

\* faulty variant of handleDirectFieldErrors: keys normalised as those of a
\* ctx.FieldErrors are
handleDirectFieldErrors_Normalized(err, m) ==
    LET kept == {k \in DOMAIN err.m : normalizeFieldKey(k) # <<>>}
    IN  [k \in (DOMAIN m) \cup {normalizeFieldKey(x) : x \in kept} |->
            IF \E x \in kept : normalizeFieldKey(x) = k
            THEN err.m[CHOOSE x \in kept : normalizeFieldKey(x) = k]
            ELSE m[k]]

\* validate.go:153 handleDirectFieldErrors
handleDirectFieldErrors(err, m) ==
    [k \in (DOMAIN m) \cup (DOMAIN err.m) |-> IF k \in DOMAIN err.m THEN err.m[k] ELSE m[k]]

\* validate.go:165 handleStructuredErrorMessage
handleStructuredErrorMessage(err, m) ==
    LET fieldErrors == parseStructuredErrors(err.msg)
    IN  IF Cardinality(DOMAIN fieldErrors) = 0
        THEN [handled |-> FALSE, m |-> m]
        ELSE [handled |-> TRUE,
              m |-> [k \in (DOMAIN m) \cup (DOMAIN fieldErrors) |->
                        IF k \in DOMAIN fieldErrors THEN fieldErrors[k] ELSE m[k]]]

\* the value a conversion returns: a map (isNil: the nil map) and the
\* message-function invocations made while building it
Result(isNil, m, calls) == [isNil |-> isNil, m |-> m, calls |-> calls]

\* faulty variant of NilErrorResult: the map is declared but never made
NilErrorResult_NilMap == [isNil |-> TRUE, m |-> EmptyMap, calls |-> <<>>]

\* validate.go:89-92: the result for a nil error
NilErrorResult == Result(FALSE, EmptyMap, <<>>)

\* faulty variant of GenericPath: no final fallback to _error
GenericPath_NoFallback(err) ==
    Result(FALSE, handleStructuredErrorMessage(err, EmptyMap).m, <<>>)

\* faulty variant of GenericPath: no return after the structured parse, so
\* _error is set as well
GenericPath_AlwaysError(err) ==
    Result(FALSE, Put(handleStructuredErrorMessage(err, EmptyMap).m, s_error, err.msg), <<>>)

\* validate.go:105-110: the path of an error of none of the three types
GenericPath(err) ==
    LET h == handleStructuredErrorMessage(err, EmptyMap)
    IN  IF h.handled THEN Result(FALSE, h.m, <<>>)
        ELSE Result(FALSE, Put(EmptyMap, s_error, err.msg), <<>>)

\* the text fmt.Errorf puts before the error it wraps with %w
WrapPrefix == <<"b","i","n","d",":"," ">>

\* the dynamic types of errors that wrap one of the three typed errors
WrappedTypes == {"wrapValidation", "wrapDirect", "wrapCtx"}

\* the dynamic type of the error inside a wrapping error
InnerType(t) ==
    CASE t = "wrapValidation" -> "validation"
      [] t = "wrapDirect" -> "direct"
      [] t = "wrapCtx" -> "ctx"

RECURSIVE FieldErrorLines(_)
\* the validation library's ValidationErrors.Error before trimming: one line
\* per field error, each followed by a line feed
FieldErrorLines(fes) ==
    IF fes = <<>> THEN <<>>
    ELSE <<"K","e","y",":"," ","'">> \o Head(fes).structField \o <<"'"," ","E","r","r","o","r",":","F","i","e","l","d"," ","v","a","l","i","d","a","t","i","o","n"," ","f","o","r"," ","'">>
         \o Head(fes).field \o <<"'"," ","f","a","i","l","e","d"," ","o","n"," ","t","h","e"," ","'">> \o Head(fes).tag \o <<"'"," ","t","a","g","\n">>
         \o FieldErrorLines(Tail(fes))

\* err.Error() of the three typed errors (validate.go:75 for FieldErrors)
ErrorText(err) ==
    IF err.type = "validation" THEN TrimSpace(FieldErrorLines(err.fes)) ELSE err.msg

\* fmt.Errorf("bind: %w", inner): an error of another dynamic type that
\* holds inner and whose Error() is the prefix and inner.Error()
Wrap(inner) ==
    Error(CASE inner.type = "validation" -> "wrapValidation"
            [] inner.type = "direct" -> "wrapDirect"
            [] inner.type = "ctx" -> "wrapCtx",
          inner.fes, inner.m, inner.all, WrapPrefix \o ErrorText(inner))

\* errors.Unwrap of a wrapping error
Unwrap(err) ==
    Error(InnerType(err.type), err.fes, err.m, err.all,
          SubSeq(err.msg, Len(WrapPrefix) + 1, Len(err.msg)))

\* faulty variant of ToFieldErrorsWith: the typed error is looked for inside
\* wrapping errors, as errors.As does
ToFieldErrorsWith_Unwrapping(err, fn) ==
    LET e == IF err.type \in WrappedTypes THEN Unwrap(err) ELSE err
    IN  CASE e.type = "nil" -> NilErrorResult
          [] e.type = "ctx" -> Result(FALSE, handleCtxFieldErrors(e, EmptyMap), <<>>)
          [] e.type = "validation" ->
                LET r == handleValidationErrors(e.fes, [m |-> EmptyMap, calls |-> <<>>], fn)
                IN  Result(FALSE, r.m, r.calls)
          [] e.type = "direct" -> Result(FALSE, handleDirectFieldErrors(e, EmptyMap), <<>>)
          [] OTHER -> GenericPath(e)

\* faulty variant of ToFieldErrorsWith: a typed error that yields no entry
\* goes on to the generic path
ToFieldErrorsWith_ErrorWhenEmpty(err, fn) ==
    LET typed ==
            CASE err.type = "ctx" -> Result(FALSE, handleCtxFieldErrors(err, EmptyMap), <<>>)
              [] err.type = "validation" ->
                    LET r == handleValidationErrors(err.fes, [m |-> EmptyMap, calls |-> <<>>], fn)
                    IN  Result(FALSE, r.m, r.calls)
              [] err.type = "direct" -> Result(FALSE, handleDirectFieldErrors(err, EmptyMap), <<>>)
              [] OTHER -> NilErrorResult
    IN  IF err.type = "nil" THEN NilErrorResult
        ELSE IF err.type \in {"ctx", "validation", "direct"} /\ typed.m # EmptyMap THEN typed
        ELSE GenericPath(err)

\* validate.go:88 ToFieldErrorsWith
ToFieldErrorsWith(err, fn) ==
    CASE err.type = "nil" -> NilErrorResult
      [] err.type = "ctx" -> Result(FALSE, handleCtxFieldErrors(err, EmptyMap), <<>>)
      [] err.type = "validation" ->
            LET r == handleValidationErrors(err.fes, [m |-> EmptyMap, calls |-> <<>>], fn)
            IN  Result(FALSE, r.m, r.calls)
      [] err.type = "direct" -> Result(FALSE, handleDirectFieldErrors(err, EmptyMap), <<>>)
      [] OTHER -> GenericPath(err)

\* validate.go:83 ToFieldErrors
ToFieldErrors(err) == ToFieldErrorsWith(err, messageFunc)

\* faulty variant of ToFieldErrorsWithContext: the context is not consulted
ToFieldErrorsWithContext_NoContext(ctx, err) == ToFieldErrorsWith(err, Nil)

\* validate.go:179 ToFieldErrorsWithContext
ToFieldErrorsWithContext(ctx, err) == ToFieldErrorsWith(err, MessageFuncFromContext(ctx))

(***************************************************************************)
(* Inputs.                                                                 *)
(***************************************************************************)

\* the longest validator.ValidationErrors handed to a conversion
MaxErrs == 2

\* the deepest chain of values derived on one context
MaxChain == 2

SeqsUpTo(S, n) == UNION {[1..k -> S] : k \in 0..n}

\* field errors: a json-named field, a field without json name (Field() is
\* empty), an unknown tag under the same key, an empty tag
FieldErrs ==
    { FieldError(<<"n","a","m","e">>, <<"N","a","m","e">>, <<"r","e","q","u","i","r","e","d">>, <<>>),
      FieldError(<<>>, <<"A","g","e">>, <<"m","i","n">>, <<"3">>),
      FieldError(<<"n","a","m","e">>, <<"N","a","m","e">>, <<"b","o","g","u","s">>, <<>>),
      FieldError(<<>>, <<"A","g","e">>, <<>>, <<>>) }

\* decoder error texts: unparseable, one type error, a type error with an
\* invalid-keys line, a type error naming the field _error, a starred line
\* without pattern, the empty text
msgPlain == <<"s","o","m","e"," ","u","n","p","a","r","s","e","a","b","l","e"," ","e","r","r","o","r">>

msgTypeError == <<"1"," ","e","r","r","o","r","(","s",")"," ","d","e","c","o","d","i","n","g",":","\n","\n","*"," ","'","n","a","m","e","'"," ","e","x","p","e","c","t","e","d"," ","t","y","p","e"," ","'","s","t","r","i","n","g","'",","," ","g","o","t"," ","u","n","c","o","n","v","e","r","t","i","b","l","e"," ","t","y","p","e"," ","'","f","l","o","a","t","6","4","'",","," ","v","a","l","u","e",":"," ","'","1","'">>

msgTypeAndKeys == <<"2"," ","e","r","r","o","r","(","s",")"," ","d","e","c","o","d","i","n","g",":","\n","\n","*"," ","'","n","a","m","e","'"," ","e","x","p","e","c","t","e","d"," ","t","y","p","e"," ","'","s","t","r","i","n","g","'",","," ","g","o","t"," ","u","n","c","o","n","v","e","r","t","i","b","l","e"," ","t","y","p","e"," ","'","f","l","o","a","t","6","4","'","\n","*"," ","'","'"," ","h","a","s"," ","i","n","v","a","l","i","d"," ","k","e","y","s",":"," ","n","a","m","e",","," ","f","o","o">>

msgErrorField == <<"1"," ","e","r","r","o","r","(","s",")"," ","d","e","c","o","d","i","n","g",":","\n","\n","*"," ","'","_","e","r","r","o","r","'"," ","e","x","p","e","c","t","e","d"," ","t","y","p","e"," ","'","s","t","r","i","n","g","'",","," ","g","o","t"," ","u","n","c","o","n","v","e","r","t","i","b","l","e"," ","t","y","p","e"," ","'","b","o","o","l","'">>

msgNoPattern == <<"1"," ","e","r","r","o","r","(","s",")"," ","d","e","c","o","d","i","n","g",":","\n","\n","*"," ","s","o","m","e","t","h","i","n","g"," ","r","a","n","d","o","m"," ","w","i","t","h","o","u","t"," ","p","a","t","t","e","r","n","s">>

\* a starred line with an expected type only, an indented starred line with
\* the plain "got" form, a pattern line that lacks the star
msgOnlyExpected == <<"*"," ","'","a","g","e","'"," ","e","x","p","e","c","t","e","d"," ","t","y","p","e"," ","'","i","n","t","'">>

msgIndented == <<"d","e","c","o","d","i","n","g",":","\n"," "," ","\t","*"," ","'","x",".","y","'"," ","e","x","p","e","c","t","e","d"," ","t","y","p","e"," ","'","i","n","t","'",","," ","g","o","t"," ","s","t","r","i","n","g",","," ","v","a","l","u","e","\r","\n">>

msgNoStar == <<"'","n","a","m","e","'"," ","e","x","p","e","c","t","e","d"," ","t","y","p","e"," ","'","s","t","r","i","n","g","'",","," ","g","o","t"," ","u","n","c","o","n","v","e","r","t","i","b","l","e"," ","t","y","p","e"," ","'","f","l","o","a","t","6","4","'">>

ErrorTexts ==
    {msgPlain, msgTypeError, msgTypeAndKeys, msgErrorField, msgNoPattern, <<>>,
     msgOnlyExpected, msgIndented, msgNoStar}

\* validate.FieldErrors values; keys and values are arbitrary strings
DirectMaps ==
    { EmptyMap,
      Put(EmptyMap, <<"a">>, <<"b">>),
      Put(Put(Put(EmptyMap, <<" ","n","a","m","e"," ">>, <<"i","s"," ","r","e","q","u","i","r","e","d">>), s_error, <<>>), <<"x","\n","y">>, <<"*"," ","'","z","'"," ","b","a","d">>) }

\* All() lists of a ctx.FieldErrors
CtxEntry(field, message) == [field |-> field, message |-> message]

CtxLists ==
    { <<>>,
      <<CtxEntry(<<"n","a","m","e">>, <<"f","r","o","m","A","l","l">>)>>,
      <<CtxEntry(<<" ","a","g","e"," ">>, s_invalid_type), CtxEntry(<<"f","o","o","\n","*"," ","'","b","a","r","'"," ","e","x","p","e","c","t","e","d"," ","t","y","p","e"," ","'","s","t","r","i","n","g","'">>, s_unexpected)>>,
      <<CtxEntry(<<>>, <<"n","o"," ","f","i","e","l","d">>), CtxEntry(<<"a"," ","b">>, <<"i","n","n","e","r"," ","s","p","a","c","e">>),
        CtxEntry(<<"u","s","e","r",".","f","i","r","s","t","-","n","a","m","e","_","2">>, <<"t","o","o"," ","s","h","o","r","t">>), CtxEntry(<<"n","a","m","e","\n">>, <<"t","r","a","i","l","i","n","g"," ","L","F">>)>>,
      <<CtxEntry(<<"n","a","m","e">>, <<"f","i","r","s","t">>), CtxEntry(<<"\t","n","a","m","e"," ">>, <<>>), CtxEntry(<<"f","o","o","[","0","]">>, <<"i","n","d","e","x">>)>> }

\* a decoder line whose quoted field is not a field key
msgSpaceField == <<"*"," ","'","a"," ","b","'"," ","e","x","p","e","c","t","e","d"," ","t","y","p","e"," ","'","i","n","t","'">>

CtxTexts == {s_field_validation_errors, msgTypeAndKeys, msgSpaceField}

Errors ==
    {NilError}
    \cup {ValidationErrors(fes) : fes \in SeqsUpTo(FieldErrs, MaxErrs)}
    \cup {DirectFieldErrors(m) : m \in DirectMaps}
    \cup {CtxFieldErrors(all, msg) : all \in CtxLists, msg \in CtxTexts}
    \cup {GenericError(msg) : msg \in ErrorTexts}

\* typed errors returned through a wrapping error
WrappedErrors ==
    {Wrap(e) : e \in {x \in Errors : x.type \in {"validation", "direct", "ctx"}}}

\* the errors mapped through a context: no error, and one field error each
CtxCallErrors == {e \in Errors : e.type \in {"nil", "validation"} /\ Len(e.fes) <= 1}

\* the global message functions an application has installed when it maps
\* through a context: none, a translator, one that returns "" for some tags
CtxGlobals == {Nil, "fEN", "fReq"}

\* the message functions attached to a context
CtxFuncs == {Nil, "fES", "fEmpty"}

\* struct fields under validation: the Go name, the json struct tag (empty
\* when absent) and the failing validate rule with its parameter
StructField(name, json, rule, param) ==
    [name |-> name, json |-> json, rule |-> rule, param |-> param]

NoField == StructField(<<>>, <<>>, <<>>, <<>>)

JsonTags ==
    { <<>>, <<"-">>, <<"n","a","m","e">>, <<"n","a","m","e",",","o","m","i","t","e","m","p","t","y">>, <<",","o","m","i","t","e","m","p","t","y">>, <<"-",",">>,
      <<"-",",","o","m","i","t","e","m","p","t","y">>, <<"a",",","b",",","c">>, <<"f","i","r","s","t","_","n","a","m","e",",","s","t","r","i","n","g">> }

\* the rules of the built-in table, with a parameter where the rule has one
ParamRules ==
    { <<"m","i","n">>, <<"m","a","x">>, <<"l","e","n">>, <<"o","n","e","o","f">>, <<"g","t","e">>, <<"l","t","e">>, <<"c","o","n","t","a","i","n","s">>, <<"e","x","c","l","u","d","e","s">>,
      <<"s","t","a","r","t","s","w","i","t","h">>, <<"e","n","d","s","w","i","t","h">> }

PlainRules ==
    { <<"r","e","q","u","i","r","e","d">>, <<"e","m","a","i","l">>, <<"u","r","l">>, <<"u","u","i","d">>, <<"a","l","p","h","a">>, <<"a","l","p","h","a","n","u","m">>, <<"n","u","m","e","r","i","c">>,
      <<"b","a","s","e","6","4">>, <<"j","s","o","n">>, <<"i","p">>, <<"c","i","d","r">>, <<"a","s","c","i","i">>, <<"p","r","i","n","t","a","s","c","i","i">>, <<"m","u","l","t","i","b","y","t","e">>,
      <<"i","s","c","o","l","o","r">>, <<"i","s","b","n">>, <<"i","s","b","n","1","0">>, <<"i","s","b","n","1","3">> }

\* rules outside the table: other rules of the library, a registered custom
\* rule, a rule that differs from a table entry in case or by a suffix
OtherRules == { <<"e","q","f","i","e","l","d">>, <<"l","o","w","e","r","c","a","s","e">>, <<"c","u","s","t","o","m","-","r","u","l","e">>, <<"R","e","q","u","i","r","e","d">>, <<"m","i","n","2">>, <<"i","s","b","n","1">> }

StructFields ==
    { StructField(<<"N","a","m","e">>, j, r, <<>>) : j \in JsonTags, r \in PlainRules \cup OtherRules }
    \cup { StructField(<<"A","g","e">>, j, r, p) : j \in {<<>>, <<"a","g","e">>}, r \in ParamRules \cup {<<"e","q","f","i","e","l","d">>},
                                             p \in {<<"3">>, <<"a"," ","b">>} }

(***************************************************************************)
(* Initial state.                                                          *)
(***************************************************************************)

NoCall ==
    [op |-> "none", err |-> NilError, fn |-> Nil, ctx |-> NilCtx, gf |-> Nil,
     hist |-> [fn |-> Nil, replaced |-> FALSE], res |-> NilErrorResult]

NoGot == [called |-> FALSE, ctx |-> NilCtx, applied |-> "never", fn |-> Nil]

\* the requests served and the locales they carry (route param :lang, and
\* what the application's LocaleFromCtx reads, for instance a header)
Requests == {"r1", "r2"}

RequestKinds ==
    { [lang |-> <<"E","S">>, hdr |-> <<>>],
      [lang |-> <<"e","n">>, hdr |-> <<"E","s">>],
      [lang |-> <<>>, hdr |-> <<"f","r">>],
      [lang |-> <<>>, hdr |-> <<>>] }

\* the middleware configurations (validator_i18n.go:15-29); the callbacks
\* are named: MessageFuncFor "byLocale" knows es and en, "never" returns nil
\* for every locale; LocaleFromCtx "fromHeader" returns the request's header
Configs ==
    [DefaultLocale : {<<>>, <<"e","n">>, <<"e","s">>},
     LocaleFromCtx : {Nil, "fromHeader"},
     MessageFuncFor : {Nil, "byLocale", "never"},
     SetGlobal : BOOLEAN]

\* the application's MessageFuncFor callback
MessageFuncForApply(f, locale) ==
    CASE f = "byLocale" -> (CASE locale = <<"e","s">> -> "fES"
                              [] locale = <<"e","n">> -> "fEN"
                              [] OTHER -> Nil)
      [] f = "never" -> Nil

\* the application's LocaleFromCtx callback
LocaleFromCtxApply(f, req) == req.hdr

NoMiddleware ==
    [built |-> FALSE, noop |-> TRUE,
     cfg |-> [DefaultLocale |-> <<>>, LocaleFromCtx |-> Nil, MessageFuncFor |-> Nil,
              SetGlobal |-> FALSE],
     given |-> [DefaultLocale |-> <<>>, LocaleFromCtx |-> Nil, MessageFuncFor |-> Nil,
                SetGlobal |-> FALSE],
     globalBefore |-> Nil]

\* what the application's handler returns: nil, or the error of c.JSON
HandlerErrors == {NilError, GenericError(<<"w","r","i","t","e"," ","f","a","i","l","e","d">>)}

\* the mapping goroutine before its call: its position, the fn argument,
\* the index of the field error at hand, the value of messageFunc it tested
\* and the one it invoked, the values messageFunc held during the call
IdleMapper ==
    [pc |-> "idle", fn |-> Nil, i |-> 0, res |-> EmptyMap, tested |-> Nil, invoked |-> Nil,
     calledGlobal |-> FALSE, calledNil |-> FALSE, during |-> {}]

\* a request not yet received
IdleRequest ==
    [pc |-> "idle", lang |-> <<>>, hdr |-> <<>>, locale |-> <<>>, reads |-> {}, mfCalls |-> <<>>,
     mf |-> Nil, ctx |-> Background, nextCalls |-> 0, seen |-> Nil, res |-> EmptyMap,
     overlapped |-> FALSE, herr |-> NilError, ret |-> NilError]

InitCommon ==
    /\ fld = NoField
    /\ mapper = IdleMapper
    /\ call = NoCall
    /\ lastWith = "never"
    /\ got = NoGot
    /\ mw = NoMiddleware
    /\ reqs = [r \in Requests |-> IdleRequest]

\* the package after its init, no message function installed, and the
\* application holding an error to map
Init ==
    /\ InitCommon
    /\ input \in Errors
    /\ messageFunc = Nil
    /\ lastSet = [fn |-> Nil, replaced |-> FALSE]
    /\ ctxv = Background

\* an application that has installed its global message function at start-up
\* (SetMessageFunc, validate.go:31) and maps errors through a context; a
\* caller may also hold no context at all
InitCtx ==
    /\ InitCommon
    /\ input \in CtxCallErrors
    /\ messageFunc \in CtxGlobals
    /\ lastSet = [fn |-> messageFunc, replaced |-> FALSE]
    /\ ctxv \in {Background, NilCtx}

(***************************************************************************)
(* Operations of package validate.                                         *)
(***************************************************************************)

\* faulty variant of SetMessageFunc: a nil argument is ignored
SetMessageFunc_IgnoresNil(fn) ==
    /\ messageFunc' = IF fn = Nil THEN messageFunc ELSE fn
    /\ lastSet' = [fn |-> fn, replaced |-> (lastSet.replaced \/ messageFunc # Nil)]
    /\ UNCHANGED <<input, fld, mapper, call, ctxv, lastWith, got, mw, reqs>>

\* validate.go:31 SetMessageFunc
SetMessageFunc(fn) ==
    /\ messageFunc' = fn
    /\ lastSet' = [fn |-> fn, replaced |-> (lastSet.replaced \/ messageFunc # Nil)]
    /\ UNCHANGED <<input, fld, mapper, call, ctxv, lastWith, got, mw, reqs>>

\* a call of ToFieldErrors (validate.go:83) on the error at hand
CallToFieldErrors ==
    /\ call' = [op |-> "ToFieldErrors", err |-> input, fn |-> messageFunc, ctx |-> NilCtx,
                gf |-> messageFunc, hist |-> lastSet, res |-> ToFieldErrors(input)]
    /\ UNCHANGED <<input, fld, mapper, messageFunc, lastSet, ctxv, lastWith, got, mw, reqs>>

\* a call of ToFieldErrorsWith (validate.go:88) on the error at hand
CallToFieldErrorsWith(fn) ==
    /\ call' = [op |-> "ToFieldErrorsWith", err |-> input, fn |-> fn, ctx |-> NilCtx,
                gf |-> messageFunc, hist |-> lastSet, res |-> ToFieldErrorsWith(input, fn)]
    /\ UNCHANGED <<input, fld, mapper, messageFunc, lastSet, ctxv, lastWith, got, mw, reqs>>

\* a call of ToFieldErrorsWithContext (validate.go:179) on the context held
CallToFieldErrorsWithContext ==
    /\ call' = [op |-> "ToFieldErrorsWithContext", err |-> input,
                fn |-> MessageFuncFromContext(ctxv), ctx |-> ctxv,
                gf |-> messageFunc, hist |-> lastSet, res |-> ToFieldErrorsWithContext(ctxv, input)]
    /\ UNCHANGED <<input, fld, mapper, messageFunc, lastSet, ctxv, lastWith, got, mw, reqs>>

\* ctx = WithMessageFunc(ctx, fn) (validate.go:38); context.WithValue panics
\* on a nil parent, so the derivation needs a non-nil context
DeriveWithMessageFunc(fn) ==
    /\ ~ctxv.isNil
    /\ Len(ctxv.chain) < MaxChain
    /\ ctxv' = WithMessageFunc(ctxv, fn)
    /\ lastWith' = fn
    /\ UNCHANGED <<input, fld, mapper, messageFunc, lastSet, call, got, mw, reqs>>

\* the framework or the application stores a value of its own on the context
DeriveWithOtherValue ==
    /\ ~ctxv.isNil
    /\ Len(ctxv.chain) < MaxChain
    /\ ctxv' = WithValue(ctxv, "otherKey", "otherValue")
    /\ UNCHANGED <<input, fld, mapper, messageFunc, lastSet, call, lastWith, got, mw, reqs>>

\* a call of MessageFuncFromContext (validate.go:43) on the context held
CallMessageFuncFromContext ==
    /\ got' = [called |-> TRUE, ctx |-> ctxv, applied |-> lastWith,
               fn |-> MessageFuncFromContext(ctxv)]
    /\ UNCHANGED <<input, fld, mapper, messageFunc, lastSet, call, ctxv, lastWith, mw, reqs>>

\* the package API without contexts
Next ==
    \/ \E fn \in Funcs : SetMessageFunc(fn)
    \/ CallToFieldErrors
    \/ \E fn \in Funcs : CallToFieldErrorsWith(fn)

Spec == Init /\ [][Next]_vars

\* an application that maps errors its binding layer has wrapped
InitWrap ==
    /\ InitCommon
    /\ input \in WrappedErrors
    /\ messageFunc = Nil
    /\ lastSet = [fn |-> Nil, replaced |-> FALSE]
    /\ ctxv = Background

\* the message functions such an application installs or passes
WrapFuncs == {Nil, "fES"}

NextWrap ==
    \/ \E fn \in WrapFuncs : SetMessageFunc(fn)
    \/ CallToFieldErrors
    \/ \E fn \in WrapFuncs : CallToFieldErrorsWith(fn)

SpecWrap == InitWrap /\ [][NextWrap]_vars

\* the package API with request-scoped context values
NextCtx ==
    \/ CallToFieldErrors
    \/ \E fn \in CtxFuncs : CallToFieldErrorsWith(fn)
    \/ \E fn \in CtxFuncs : DeriveWithMessageFunc(fn)
    \/ DeriveWithOtherValue
    \/ CallMessageFuncFromContext
    \/ CallToFieldErrorsWithContext

SpecCtx == InitCtx /\ [][NextCtx]_vars

(***************************************************************************)
(* Struct validation through the global Validator.                         *)
(***************************************************************************)

\* faulty variant of TagNameFunc: the tag "-" is a name like any other
TagNameFunc_DashIsName(f) ==
    LET idx == Index(f.json, s_comma)
    IN  IF idx >= 0 THEN Slice(f.json, 0, idx) ELSE f.json

\* validate.go:55-64: the tag-name function init registers on Validator
TagNameFunc(f) ==
    LET name == f.json
    IN  IF name = <<>> \/ name = <<"-">> THEN <<>>
        ELSE LET idx == Index(name, s_comma)
             IN  IF idx >= 0 THEN Slice(name, 0, idx) ELSE name

\* the Field() of the library's FieldError: the registered function's name;
\* for an empty name the library either reports the empty name or puts the
\* Go field name in its place
LibraryFieldName(f, goNameForEmpty) ==
    IF TagNameFunc(f) = <<>> /\ goNameForEmpty THEN f.name ELSE TagNameFunc(f)

\* validate.go:69 Struct on a value whose field fld fails its rule
Struct(f, goNameForEmpty) ==
    ValidationErrors(<<FieldError(LibraryFieldName(f, goNameForEmpty), f.name, f.rule, f.param)>>)

\* err := validate.Struct(s): the error at hand becomes the validation error
CallStruct(goNameForEmpty) ==
    /\ input' = Struct(fld, goNameForEmpty)
    /\ UNCHANGED <<fld, mapper, messageFunc, lastSet, call, ctxv, lastWith, got, mw, reqs>>

\* an application that validates a struct and maps the error, with no
\* message function installed
InitStruct ==
    /\ fld \in StructFields
    /\ mapper = IdleMapper
    /\ input = NilError
    /\ messageFunc = Nil
    /\ lastSet = [fn |-> Nil, replaced |-> FALSE]
    /\ ctxv = Background
    /\ call = NoCall
    /\ lastWith = "never"
    /\ got = NoGot
    /\ mw = NoMiddleware
    /\ reqs = [r \in Requests |-> IdleRequest]

NextStruct ==
    \/ \E goNameForEmpty \in BOOLEAN : CallStruct(goNameForEmpty)
    \/ CallToFieldErrors
    \/ \E fn \in {Nil, "fEmpty"} : CallToFieldErrorsWith(fn)
    \/ CallToFieldErrorsWithContext

SpecStruct == InitStruct /\ [][NextStruct]_vars

(***************************************************************************)
(* Decoder error lines assembled from their parts.                         *)
(***************************************************************************)

\* what precedes the line's content, and whether that makes the line one
\* that starts with "*" once trimmed
LinePrefixes ==
    { [text |-> <<"*"," ">>, starred |-> TRUE],
      [text |-> <<" "," ","\t","*"," ">>, starred |-> TRUE],
      [text |-> <<"1"," ","e","r","r","o","r","(","s",")"," ","d","e","c","o","d","i","n","g",":","\n","\n","*"," ">>, starred |-> TRUE],
      [text |-> <<>>, starred |-> FALSE],
      [text |-> <<"-"," ">>, starred |-> FALSE],
      [text |-> <<"e","r","r","o","r",":"," ","*"," ">>, starred |-> FALSE] }

\* the quoted field name, with the quoted texts the part holds
LineFields ==
    { [text |-> <<"'","n","a","m","e","'"," ">>, quoted |-> <<<<"n","a","m","e">>>>],
      [text |-> <<"'","a",".","b","'"," ">>, quoted |-> <<<<"a",".","b">>>>],
      [text |-> <<"'","'"," ">>, quoted |-> << <<>> >>],
      [text |-> <<>>, quoted |-> <<>>] }

\* the expected-type part, with the type it names for the parser
LineExpected ==
    { [text |-> <<"e","x","p","e","c","t","e","d"," ","t","y","p","e"," ","'","s","t","r","i","n","g","'">>, type |-> <<"s","t","r","i","n","g">>, quoted |-> <<<<"s","t","r","i","n","g">>>>],
      [text |-> <<"e","x","p","e","c","t","e","d"," ","t","y","p","e"," ","'","'">>, type |-> <<>>, quoted |-> << <<>> >>],
      [text |-> <<"e","x","p","e","c","t","e","d"," ","'","i","n","t","'">>, type |-> <<>>, quoted |-> <<<<"i","n","t">>>>],
      [text |-> <<>>, type |-> <<>>, quoted |-> <<>>] }

\* the got part, with the type it names for the parser
LineGot ==
    { [text |-> <<","," ","g","o","t"," ","u","n","c","o","n","v","e","r","t","i","b","l","e"," ","t","y","p","e"," ","'","f","l","o","a","t","6","4","'",","," ","v","a","l","u","e",":"," ","'","1","'">>, type |-> <<"f","l","o","a","t","6","4">>,
       quoted |-> <<<<"f","l","o","a","t","6","4">>, <<"1">>>>],
      [text |-> <<","," ","g","o","t"," ","s","t","r","i","n","g">>, type |-> <<"s","t","r","i","n","g">>, quoted |-> <<>>],
      [text |-> <<","," ","g","o","t"," ","'","b","o","o","l","'",","," ","v","a","l","u","e">>, type |-> <<"b","o","o","l">>, quoted |-> <<<<"b","o","o","l">>>>],
      [text |-> <<","," ","g","o","t">>, type |-> <<>>, quoted |-> <<>>],
      [text |-> <<>>, type |-> <<>>, quoted |-> <<>>] }

\* the texts assembled from the parts, each with the parts it was made of
ParseCases ==
    { [text |-> p.text \o f.text \o e.text \o g.text,
       starred |-> p.starred,
       quoted |-> f.quoted \o e.quoted \o g.quoted,
       expected |-> e.type,
       got |-> g.type] : p \in LinePrefixes, f \in LineFields, e \in LineExpected, g \in LineGot }

\* type-error lines, each with the key it names and the message it gives
TypeLines ==
    { [text |-> <<"*"," ","'","f","o","o","'"," ","e","x","p","e","c","t","e","d"," ","t","y","p","e"," ","'","s","t","r","i","n","g","'",","," ","g","o","t"," ","u","n","c","o","n","v","e","r","t","i","b","l","e"," ","t","y","p","e"," ","'","f","l","o","a","t","6","4","'">>,
       key |-> <<"f","o","o">>, msg |-> <<"e","x","p","e","c","t","e","d"," ","s","t","r","i","n","g"," ","b","u","t"," ","g","o","t"," ","f","l","o","a","t","6","4">>],
      [text |-> <<"*"," ","'","f","o","o","'"," ","e","x","p","e","c","t","e","d"," ","t","y","p","e"," ","'","i","n","t","'">>, key |-> <<"f","o","o">>, msg |-> <<"i","n","v","a","l","i","d"," ","t","y","p","e">>] }

\* invalid-keys lines in the two shapes of the decoder, each with its quoted
\* prefix and the keys it lists; a quote that punctuation follows stays part
\* of the key (TestParseInvalidKeys_TrimmingAndEmpty)
KeyLines ==
    { [text |-> <<"*"," ","'","'"," ","h","a","s"," ","i","n","v","a","l","i","d"," ","k","e","y","s",":"," ","f","o","o",","," ","b","a","r">>, prefix |-> <<>>, keys |-> {<<"f","o","o">>, <<"b","a","r">>}],
      [text |-> <<"*"," ","'","'"," ","h","a","s"," ","i","n","v","a","l","i","d"," ","k","e","y","s",":"," ","\"","f","o","o","\"",",","'","b","a","r","'",".">>, prefix |-> <<>>,
       keys |-> {<<"f","o","o">>, <<"b","a","r","'">>}],
      [text |-> <<"*"," ","'","'"," ","h","a","s"," ","i","n","v","a","l","i","d"," ","k","e","y","s",":"," ","b","a","r">>, prefix |-> <<>>, keys |-> {<<"b","a","r">>}],
      [text |-> <<"*"," ","'","'"," ","h","a","s"," ","i","n","v","a","l","i","d"," ","k","e","y","s",":"," "," "," ">>, prefix |-> <<>>, keys |-> {}],
      [text |-> <<"*"," ","'","r","o","o","t","'"," ","h","a","s"," ","i","n","v","a","l","i","d"," ","k","e","y","s",":"," ","f","o","o">>, prefix |-> <<"r","o","o","t">>, keys |-> {<<"f","o","o">>}],
      [text |-> <<"*"," ","'","r","o","o","t","'"," ","h","a","s"," ","i","n","v","a","l","i","d"," ","k","e","y","s",":"," ","f","o","o",","," ","b","a","r">>, prefix |-> <<"r","o","o","t">>,
       keys |-> {<<"f","o","o">>, <<"b","a","r">>}] }

\* the texts with an invalid-keys line: alone, after a type-error line and
\* before one; typed holds the type-error line, if any
KeyCases ==
    { [text |-> <<"1"," ","e","r","r","o","r","(","s",")"," ","d","e","c","o","d","i","n","g",":","\n","\n">> \o k.text, typed |-> {}, keyLine |-> k,
       order |-> "alone"] : k \in KeyLines }
    \cup { [text |-> <<"2"," ","e","r","r","o","r","(","s",")"," ","d","e","c","o","d","i","n","g",":","\n","\n">> \o t.text \o s_newline \o k.text,
             typed |-> {t}, keyLine |-> k, order |-> "typeFirst"] : t \in TypeLines, k \in KeyLines }
    \cup { [text |-> <<"2"," ","e","r","r","o","r","(","s",")"," ","d","e","c","o","d","i","n","g",":","\n","\n">> \o k.text \o s_newline \o t.text,
             typed |-> {t}, keyLine |-> k, order |-> "keysFirst"] : t \in TypeLines, k \in KeyLines }

\* an application that maps decoder errors: a plain error, or a
\* ctx.FieldErrors without entries, whose text is one of the assembled ones
InitParse ==
    /\ InitCommon
    /\ input \in {GenericError(c.text) : c \in ParseCases}
                 \cup {CtxFieldErrors(<<>>, c.text) : c \in ParseCases}
                 \cup {CtxFieldErrors(<<>>, c.text) : c \in KeyCases}
    /\ messageFunc = Nil
    /\ lastSet = [fn |-> Nil, replaced |-> FALSE]
    /\ ctxv = Background

NextParse ==
    \/ CallToFieldErrors
    \/ \E fn \in {Nil, "fES"} : CallToFieldErrorsWith(fn)
    \/ CallToFieldErrorsWithContext

SpecParse == InitParse /\ [][NextParse]_vars

(***************************************************************************)
(* Field keys of a ctx.FieldErrors drawn over a small alphabet.            *)
(***************************************************************************)

\* the longest field key drawn
MaxKeyLen == 3

\* a letter of each case, a digit, the three punctuation marks of a key,
\* blanks, line breaks and a character outside the key alphabet
KeyChars == {"a", "Z", "7", ".", "-", "_", " ", "\t", "\n", "\r", "["}

FieldKeys == SeqsUpTo(KeyChars, MaxKeyLen)

\* an application that maps a ctx.FieldErrors with one entry
InitKey ==
    /\ InitCommon
    /\ input \in {CtxFieldErrors(<<CtxEntry(k, <<"b","a","d">>)>>, s_field_validation_errors) :
                     k \in FieldKeys}
    /\ messageFunc = Nil
    /\ lastSet = [fn |-> Nil, replaced |-> FALSE]
    /\ ctxv = Background

NextKey ==
    \/ CallToFieldErrors
    \/ \E fn \in {Nil, "fES"} : CallToFieldErrorsWith(fn)
    \/ CallToFieldErrorsWithContext

SpecKey == InitKey /\ [][NextKey]_vars

(***************************************************************************)
(* The ValidatorI18n middleware.                                           *)
(***************************************************************************)

\* faulty variant of EffectiveConfig: an empty DefaultLocale stays empty
EffectiveConfig_KeepEmpty(cfg) == cfg

\* validator_i18n.go:38-40: the configuration the returned closure captures
EffectiveConfig(cfg) ==
    IF cfg.DefaultLocale = <<>> THEN [cfg EXCEPT !.DefaultLocale = <<"e","n">>] ELSE cfg

\* faulty variant of ValidatorI18n: a configuration without MessageFuncFor
\* clears the global message function
ValidatorI18n_NoopClearsGlobal(cfg) ==
    /\ ~mw.built
    /\ IF cfg.MessageFuncFor = Nil
       THEN /\ mw' = [built |-> TRUE, noop |-> TRUE, cfg |-> cfg, given |-> cfg,
                       globalBefore |-> messageFunc]
            /\ messageFunc' = Nil
            /\ lastSet' = [fn |-> Nil, replaced |-> (lastSet.replaced \/ messageFunc # Nil)]
       ELSE LET c == EffectiveConfig(cfg)
                mf == MessageFuncForApply(c.MessageFuncFor, c.DefaultLocale)
            IN  /\ mw' = [built |-> TRUE, noop |-> FALSE, cfg |-> c, given |-> cfg,
                           globalBefore |-> messageFunc]
                /\ IF c.SetGlobal /\ mf # Nil
                   THEN /\ messageFunc' = mf
                        /\ lastSet' = [fn |-> mf,
                                       replaced |-> (lastSet.replaced \/ messageFunc # Nil)]
                   ELSE UNCHANGED <<messageFunc, lastSet>>
    /\ UNCHANGED <<input, fld, mapper, call, ctxv, lastWith, got, reqs>>

\* faulty variant of ValidatorI18n: SetGlobal installs the looked-up function
\* even when it is nil
ValidatorI18n_SetGlobalNil(cfg) ==
    /\ ~mw.built
    /\ IF cfg.MessageFuncFor = Nil
       THEN /\ mw' = [built |-> TRUE, noop |-> TRUE, cfg |-> cfg, given |-> cfg,
                       globalBefore |-> messageFunc]
            /\ UNCHANGED <<messageFunc, lastSet>>
       ELSE LET c == EffectiveConfig(cfg)
                mf == MessageFuncForApply(c.MessageFuncFor, c.DefaultLocale)
            IN  /\ mw' = [built |-> TRUE, noop |-> FALSE, cfg |-> c, given |-> cfg,
                           globalBefore |-> messageFunc]
                /\ IF c.SetGlobal
                   THEN /\ messageFunc' = mf
                        /\ lastSet' = [fn |-> mf,
                                       replaced |-> (lastSet.replaced \/ messageFunc # Nil)]
                   ELSE UNCHANGED <<messageFunc, lastSet>>
    /\ UNCHANGED <<input, fld, mapper, call, ctxv, lastWith, got, reqs>>

\* faulty variant of EffectiveConfig: an empty DefaultLocale stays empty
\* validator_i18n.go:33 ValidatorI18n: the construction of the middleware
ValidatorI18n(cfg) ==
    /\ ~mw.built
    /\ IF cfg.MessageFuncFor = Nil
       THEN /\ mw' = [built |-> TRUE, noop |-> TRUE, cfg |-> cfg, given |-> cfg,
                       globalBefore |-> messageFunc]
            /\ UNCHANGED <<messageFunc, lastSet>>
       ELSE LET c == EffectiveConfig(cfg)
                mf == MessageFuncForApply(c.MessageFuncFor, c.DefaultLocale)
            IN  /\ mw' = [built |-> TRUE, noop |-> FALSE, cfg |-> c, given |-> cfg,
                           globalBefore |-> messageFunc]
                /\ IF c.SetGlobal /\ mf # Nil
                   THEN /\ messageFunc' = mf
                        /\ lastSet' = [fn |-> mf,
                                       replaced |-> (lastSet.replaced \/ messageFunc # Nil)]
                   ELSE UNCHANGED <<messageFunc, lastSet>>
    /\ UNCHANGED <<input, fld, mapper, call, ctxv, lastWith, got, reqs>>

\* the framework hands a request, with a flash.Ctx of its own, to the chain
Arrive(r, kind) ==
    /\ mw.built
    /\ reqs[r].pc = "idle"
    /\ reqs' = [reqs EXCEPT ![r] = [IdleRequest EXCEPT !.pc = "middleware",
                                                       !.lang = kind.lang,
                                                       !.hdr = kind.hdr]]
    /\ UNCHANGED <<input, fld, mapper, messageFunc, lastSet, call, ctxv, lastWith, got, mw>>

\* faulty variant of ResolveLocale: the route param is the fallback of an
\* empty LocaleFromCtx result
ResolveLocale_ParamFallback(cfg, req) ==
    LET l == IF cfg.LocaleFromCtx # Nil /\ LocaleFromCtxApply(cfg.LocaleFromCtx, req) # <<>>
             THEN LocaleFromCtxApply(cfg.LocaleFromCtx, req)
             ELSE req.lang
    IN  IF l # <<>> THEN ToLower(l) ELSE cfg.DefaultLocale

\* validator_i18n.go:49-58: the locale of a request
ResolveLocale(cfg, req) ==
    IF cfg.LocaleFromCtx # Nil
    THEN LET l == LocaleFromCtxApply(cfg.LocaleFromCtx, req)
         IN  IF l # <<>> THEN ToLower(l) ELSE cfg.DefaultLocale
    ELSE LET l == req.lang
         IN  IF l # <<>> THEN ToLower(l) ELSE cfg.DefaultLocale

\* validator_i18n.go:50-57: what the handler consults for the locale
LocaleSources(cfg) == IF cfg.LocaleFromCtx # Nil THEN {"LocaleFromCtx"} ELSE {"Param lang"}

\* faulty variant of LookupMessageFunc: no second lookup for the default locale
LookupMessageFunc_NoFallback(cfg, locale) ==
    [mf |-> MessageFuncForApply(cfg.MessageFuncFor, locale), calls |-> <<locale>>]

\* validator_i18n.go:60-63: the message function of a locale, with the
\* locales MessageFuncFor was called with
LookupMessageFunc(cfg, locale) ==
    LET first == MessageFuncForApply(cfg.MessageFuncFor, locale)
    IN  IF first = Nil /\ locale # cfg.DefaultLocale
        THEN [mf |-> MessageFuncForApply(cfg.MessageFuncFor, cfg.DefaultLocale),
              calls |-> <<locale, cfg.DefaultLocale>>]
        ELSE [mf |-> first, calls |-> <<locale>>]

\* faulty variant of SetRequestContext: one context shared by all requests
SetRequestContext_Shared(rs, r, ctx) == [q \in DOMAIN rs |-> [rs[q] EXCEPT !.ctx = ctx]]

\* validator_i18n.go:65-68: the derived context becomes the context of the
\* request r alone (c.Request().WithContext(ctx), c.SetRequest(r2))
SetRequestContext(rs, r, ctx) == [rs EXCEPT ![r].ctx = ctx]

\* validator_i18n.go:48-69: the middleware's handler up to the call of next;
\* a misconfigured middleware is the next handler itself (line 36)
MiddlewareHandler(r) ==
    /\ reqs[r].pc = "middleware"
    /\ IF mw.noop
       THEN reqs' = [reqs EXCEPT ![r].pc = "next"]
       ELSE LET locale == ResolveLocale(mw.cfg, reqs[r])
                found == LookupMessageFunc(mw.cfg, locale)
                rs == [reqs EXCEPT ![r].pc = "next",
                                   ![r].locale = locale,
                                   ![r].reads = LocaleSources(mw.cfg),
                                   ![r].mfCalls = found.calls,
                                   ![r].mf = found.mf]
            IN  reqs' = IF found.mf # Nil
                        THEN SetRequestContext(rs, r, WithMessageFunc(reqs[r].ctx, found.mf))
                        ELSE rs
    /\ UNCHANGED <<input, fld, mapper, messageFunc, lastSet, call, ctxv, lastWith, got, mw>>

\* faulty variant of MiddlewareReturn: the handler's error is swallowed
MiddlewareReturn_Swallowed(e) == NilError

\* validator_i18n.go:70 return next(c): what the middleware's handler returns
\* for the error e of the next handler
MiddlewareReturn(e) == e

\* validator_i18n.go:70 next(c): the application's handler reads the message
\* function of its context and maps a validation error through that context
\* (validateHandler, validate.go:433-444)
NextHandler(r, e) ==
    /\ reqs[r].pc = "next"
    /\ reqs' = [reqs EXCEPT
                  ![r].pc = "done",
                  ![r].nextCalls = @ + 1,
                  ![r].herr = e,
                  ![r].ret = MiddlewareReturn(e),
                  ![r].seen = MessageFuncFromContext(reqs[r].ctx),
                  ![r].res = ToFieldErrorsWithContext(reqs[r].ctx, input).m,
                  ![r].overlapped = \E q \in Requests \ {r} : reqs[q].pc = "next"]
    /\ UNCHANGED <<input, fld, mapper, messageFunc, lastSet, call, ctxv, lastWith, got, mw>>

\* an application whose handler fails validation on a required field; it may
\* have installed a global message function before it builds the middleware
InitI18n ==
    /\ InitCommon
    /\ input = ValidationErrors(<<FieldError(<<"n","a","m","e">>, <<"N","a","m","e">>, <<"r","e","q","u","i","r","e","d">>, <<>>)>>)
    /\ messageFunc \in {Nil, "fReq"}
    /\ lastSet = [fn |-> messageFunc, replaced |-> FALSE]
    /\ ctxv = Background

\* the middleware serving requests concurrently
NextI18n ==
    \/ \E cfg \in Configs : ValidatorI18n(cfg)
    \/ \E r \in Requests, kind \in RequestKinds : Arrive(r, kind)
    \/ \E r \in Requests : MiddlewareHandler(r)
    \/ \E r \in Requests, e \in HandlerErrors : NextHandler(r, e)

SpecI18n == InitI18n /\ [][NextI18n]_vars

\* the server runs every handler it has started to its end: a request in the
\* middleware reaches the call of next, and the next handler returns
SpecI18nFair ==
    /\ SpecI18n
    /\ \A r \in Requests : WF_vars(MiddlewareHandler(r))
    /\ \A r \in Requests : WF_vars(\E e \in HandlerErrors : NextHandler(r, e))


(***************************************************************************)
(* SetMessageFunc on one goroutine while another maps an error: the steps  *)
(* of humanMessageWith between its reads of the package variable.          *)
(***************************************************************************)

\* the field error the mapping goroutine is at
MapperFieldError == input.fes[mapper.i]

\* validate.go:142-148: the message of the field error at hand is stored and
\* the loop goes on to the next field error, or returns
MapperStore(mp, msg) ==
    [mp EXCEPT !.res = Put(mp.res, FieldKey(MapperFieldError), msg),
               !.i = mp.i + 1,
               !.pc = IF mp.i + 1 > Len(input.fes) THEN "done" ELSE "testFn"]

\* validate.go:83/88: the call starts; ToFieldErrors reads messageFunc once
\* for its fn argument
MapperStart(fromGlobal, fn) ==
    /\ mapper.pc = "idle"
    /\ mapper' = [IdleMapper EXCEPT !.pc = IF input.fes = <<>> THEN "done" ELSE "testFn",
                                    !.fn = IF fromGlobal THEN messageFunc ELSE fn,
                                    !.i = 1,
                                    !.during = {messageFunc}]
    /\ UNCHANGED <<input, fld, messageFunc, lastSet, call, ctxv, lastWith, got, mw, reqs>>

\* validate.go:189-193: the fn argument, a local value, is tested and called
MapperTestFn ==
    /\ mapper.pc = "testFn"
    /\ mapper' = IF mapper.fn # Nil /\ Apply(mapper.fn, MapperFieldError) # <<>>
                 THEN MapperStore(mapper, Apply(mapper.fn, MapperFieldError))
                 ELSE [mapper EXCEPT !.pc = "testGlobal"]
    /\ UNCHANGED <<input, fld, messageFunc, lastSet, call, ctxv, lastWith, got, mw, reqs>>

\* validate.go:194: messageFunc != nil, a read of the package variable
MapperTestGlobal ==
    /\ mapper.pc = "testGlobal"
    /\ mapper' = IF messageFunc = Nil
                 THEN MapperStore([mapper EXCEPT !.tested = Nil], defaultMessage(MapperFieldError))
                 ELSE [mapper EXCEPT !.tested = messageFunc, !.pc = "callGlobal"]
    /\ UNCHANGED <<input, fld, messageFunc, lastSet, call, ctxv, lastWith, got, mw, reqs>>

\* validate.go:195: messageFunc(fe) names the package variable a second
\* time; without synchronisation the build may load it again or reuse the
\* value it tested
GlobalToInvoke(reload) == IF reload THEN messageFunc ELSE mapper.tested

\* validate.go:195-198: the call of the global function; calling a nil
\* function panics
MapperCallGlobal(reload) ==
    /\ mapper.pc = "callGlobal"
    /\ LET f == GlobalToInvoke(reload)
           mp == [mapper EXCEPT !.invoked = f, !.calledGlobal = TRUE]
       IN  mapper' = IF f = Nil
                     THEN [mp EXCEPT !.calledNil = TRUE, !.pc = "panic"]
                     ELSE MapperStore(mp, IF Apply(f, MapperFieldError) # <<>>
                                          THEN Apply(f, MapperFieldError)
                                          ELSE defaultMessage(MapperFieldError))
    /\ UNCHANGED <<input, fld, messageFunc, lastSet, call, ctxv, lastWith, got, mw, reqs>>

\* validate.go:31 SetMessageFunc on the other goroutine
ConcurrentSetMessageFunc(fn) ==
    /\ messageFunc' = fn
    /\ lastSet' = [fn |-> fn, replaced |-> (lastSet.replaced \/ messageFunc # Nil)]
    /\ mapper' = IF mapper.pc \in {"idle", "done", "panic"} THEN mapper
                 ELSE [mapper EXCEPT !.during = @ \cup {fn}]
    /\ UNCHANGED <<input, fld, call, ctxv, lastWith, got, mw, reqs>>

\* an application that maps validation errors on one goroutine and changes
\* the global message function on another
InitRace ==
    /\ InitCommon
    /\ input \in {ValidationErrors(fes) : fes \in SeqsUpTo(FieldErrs, MaxErrs)}
    /\ messageFunc \in {Nil, "fES"}
    /\ lastSet = [fn |-> messageFunc, replaced |-> FALSE]
    /\ ctxv = Background

NextRace ==
    \/ \E fn \in {Nil, "fEN", "fReq"} : ConcurrentSetMessageFunc(fn)
    \/ \E fromGlobal \in BOOLEAN, fn \in {Nil, "fEmpty"} : MapperStart(fromGlobal, fn)
    \/ MapperTestFn
    \/ MapperTestGlobal
    \/ \E reload \in BOOLEAN : MapperCallGlobal(reload)

SpecRace == InitRace /\ [][NextRace]_vars
(***************************************************************************)
(* Properties.                                                             *)
(***************************************************************************)

\* the key the claims expect for a field error
ExpectedKey(fe) == IF fe.field # <<>> THEN fe.field ELSE fe.structField

\* the field error at position i is the last one of the list under its key
LastUnderKey(fes, i) == \A j \in (i + 1)..Len(fes) : ExpectedKey(fes[j]) # ExpectedKey(fes[i])

\* the message expected from a per-call function fn over a global function gf
ExpectedMessage(fe, fn, gf) ==
    IF fn # Nil /\ Apply(fn, fe) # <<>> THEN Apply(fn, fe)
    ELSE IF gf # Nil /\ Apply(gf, fe) # <<>> THEN Apply(gf, fe)
    ELSE defaultMessage(fe)

Mapped == call.op # "none"

\* the function WithMessageFunc attached innermost on a context, if any
AttachedFunc(ctx) ==
    LET at == {i \in 1..Len(ctx.chain) : ctx.chain[i].key = "ctxKeyMsgFunc"}
    IN  IF ctx.isNil \/ at = {} THEN Nil
        ELSE ctx.chain[CHOOSE i \in at : \A j \in at : j <= i].val

\* C1: for every field error mapped by ToFieldErrorsWith(err, fn) the message
\* is fn(fe) when fn is non-nil and returns a non-empty string, otherwise the
\* global function's result when that is non-nil and non-empty, otherwise the
\* built-in default; an empty result always falls through to the next level.
C1_MessagePrecedence ==
    (call.op \in {"ToFieldErrors", "ToFieldErrorsWith"} /\ call.err.type = "validation") =>
        \A i \in 1..Len(call.err.fes) :
            LET fe == call.err.fes[i]
            IN  LastUnderKey(call.err.fes, i) =>
                    /\ ExpectedKey(fe) \in DOMAIN call.res.m
                    /\ call.res.m[ExpectedKey(fe)] = ExpectedMessage(fe, call.fn, call.gf)

\* C1 witness: a per-call function returned "" and the global function's
\* message was used
C1_Witness ==
    /\ call.op = "ToFieldErrorsWith"
    /\ call.fn = "fEmpty"
    /\ call.gf = "fES"
    /\ call.err = ValidationErrors(<<FieldError(<<"n","a","m","e">>, <<"N","a","m","e">>, <<"r","e","q","u","i","r","e","d">>, <<>>)>>)
    /\ call.res.m = Put(EmptyMap, <<"n","a","m","e">>, <<"E","S","_","M","S","G">>)

ExpectedEntries(msg) ==
    CASE msg = msgTypeError -> Put(EmptyMap, <<"n","a","m","e">>, <<"e","x","p","e","c","t","e","d"," ","s","t","r","i","n","g"," ","b","u","t"," ","g","o","t"," ","f","l","o","a","t","6","4">>)
      [] msg = msgTypeAndKeys ->
            Put(Put(EmptyMap, <<"n","a","m","e">>, <<"e","x","p","e","c","t","e","d"," ","s","t","r","i","n","g"," ","b","u","t"," ","g","o","t"," ","f","l","o","a","t","6","4">>), <<"f","o","o">>, s_unexpected)
      [] msg = msgErrorField -> Put(EmptyMap, s_error, <<"e","x","p","e","c","t","e","d"," ","s","t","r","i","n","g"," ","b","u","t"," ","g","o","t"," ","b","o","o","l">>)
      [] msg = msgOnlyExpected -> Put(EmptyMap, <<"a","g","e">>, s_invalid_type)
      [] msg = msgIndented -> Put(EmptyMap, <<"x",".","y">>, <<"e","x","p","e","c","t","e","d"," ","i","n","t"," ","b","u","t"," ","g","o","t"," ","s","t","r","i","n","g">>)
      [] msg = msgSpaceField -> Put(EmptyMap, <<"a"," ","b">>, s_invalid_type)
      [] OTHER -> EmptyMap

\* C3 as stated: a generic error whose text has a parseable line maps to
\* exactly the parsed entries and the result has no _error key.
C3_Original ==
    (Mapped /\ call.err.type = "generic" /\ ExpectedEntries(call.err.msg) # EmptyMap) =>
        /\ call.res.m = ExpectedEntries(call.err.msg)
        /\ s_error \notin DOMAIN call.res.m

\* C3 amended: a generic error whose text has a parseable line maps to
\* exactly the parsed entries; no _error entry is synthesised from
\* err.Error(), so the result has an _error key only when the text itself
\* names a field _error.
C3_StructuredFallback ==
    (Mapped /\ call.err.type = "generic" /\ ExpectedEntries(call.err.msg) # EmptyMap) =>
        /\ call.res.m = ExpectedEntries(call.err.msg)
        /\ call.res.m = parseStructuredErrors(call.err.msg)
        /\ s_error \in DOMAIN call.res.m =>
              /\ call.err.msg = msgErrorField
              /\ call.res.m[s_error] # call.err.msg

\* C3 witness: a text with a type-error line and an invalid-keys line was mapped
C3_Witness ==
    /\ call.op = "ToFieldErrorsWith"
    /\ call.err = GenericError(msgTypeAndKeys)
    /\ DOMAIN call.res.m = {<<"n","a","m","e">>, <<"f","o","o">>}

\* C4: ToFieldErrors(nil), ToFieldErrorsWith(nil, fn) and
\* ToFieldErrorsWithContext(ctx, nil) return an empty, non-nil map for every
\* fn and ctx, and invoke no message function.
C4_NilErrorEmptyMap ==
    (Mapped /\ call.err.type = "nil") =>
        /\ ~call.res.isNil
        /\ call.res.m = EmptyMap
        /\ call.res.calls = <<>>

\* C4 witness: nil was mapped through a context that carries a function while
\* a global function is installed
C4_Witness ==
    /\ call.op = "ToFieldErrorsWithContext"
    /\ call.err = NilError
    /\ call.fn = "fES"
    /\ call.gf = "fEN"
    /\ call.res.m = EmptyMap

\* C5: ToFieldErrors(m) of a validate.FieldErrors m returns exactly the pairs
\* of m: no key added, dropped, normalised or retranslated, and no message
\* function consulted.
C5_DirectPassthrough ==
    (Mapped /\ call.err.type = "direct") =>
        /\ DOMAIN call.res.m = DOMAIN call.err.m
        /\ \A k \in DOMAIN call.err.m : call.res.m[k] = call.err.m[k]
        /\ call.res.calls = <<>>

\* C5 witness: a map with keys normalisation would drop was passed through
\* while a global function is installed
C5_Witness ==
    /\ call.op = "ToFieldErrors"
    /\ call.gf = "fES"
    /\ call.err.type = "direct"
    /\ <<" ","n","a","m","e"," ">> \in DOMAIN call.res.m
    /\ <<"x","\n","y">> \in DOMAIN call.res.m
    /\ s_error \in DOMAIN call.res.m

\* C6: the key of every field error of a validator.ValidationErrors is
\* fe.Field() when non-empty and fe.StructField() when fe.Field() is empty.
C6_KeyFieldOrStructField ==
    (Mapped /\ call.err.type = "validation") =>
        DOMAIN call.res.m =
            { (IF call.err.fes[i].field # <<>> THEN call.err.fes[i].field
               ELSE call.err.fes[i].structField) : i \in 1..Len(call.err.fes) }

\* C6 witness: a list with a named and an unnamed field was mapped
C6_Witness ==
    /\ call.op = "ToFieldErrors"
    /\ call.err.type = "validation"
    /\ DOMAIN call.res.m = {<<"n","a","m","e">>, <<"A","g","e">>}

\* C7: ToFieldErrorsWithContext(ctx, err) uses the function attached to ctx
\* by WithMessageFunc when one is present; when ctx carries none it falls
\* back to the global function, and when that is unset too, to the default
\* messages.
C7_ContextFuncThenGlobal ==
    (call.op = "ToFieldErrorsWithContext" /\ call.err.type = "validation") =>
        LET cf == AttachedFunc(call.ctx)
        IN  \A i \in 1..Len(call.err.fes) :
                LET fe == call.err.fes[i]
                IN  /\ cf # Nil => /\ call.res.calls # <<>>
                                   /\ Head(call.res.calls) = [f |-> cf, fe |-> fe]
                    /\ cf = Nil => \A c \in 1..Len(call.res.calls) : call.res.calls[c].f = call.gf
                    /\ LastUnderKey(call.err.fes, i) =>
                          call.res.m[ExpectedKey(fe)] = ExpectedMessage(fe, cf, call.gf)

\* C7 witness: the context's function won over an installed global function
C7_Witness ==
    /\ call.op = "ToFieldErrorsWithContext"
    /\ AttachedFunc(call.ctx) = "fES"
    /\ call.gf = "fEN"
    /\ call.err.type = "validation"
    /\ call.res.m = Put(EmptyMap, <<"n","a","m","e">>, <<"E","S","_","M","S","G">>)

\* C7 witness of the fallback: a context without function, the global one used
C7_WitnessFallback ==
    /\ call.op = "ToFieldErrorsWithContext"
    /\ ~call.ctx.isNil
    /\ AttachedFunc(call.ctx) = Nil
    /\ call.gf = "fEN"
    /\ call.res.m = Put(EmptyMap, <<"n","a","m","e">>, <<"E","N","_","M","S","G">>)

\* C8: MessageFuncFromContext(WithMessageFunc(ctx, fn)) returns fn for every
\* non-nil ctx and fn; MessageFuncFromContext returns nil for a nil context
\* and for a context WithMessageFunc was never applied to; applied twice
\* along a chain, the innermost (most recent) function is returned.
C8_ContextRoundTrip ==
    got.called =>
        got.fn = (IF got.ctx.isNil \/ got.applied = "never" THEN Nil ELSE got.applied)

\* C8 witness: two functions attached along the chain, the later one read
C8_Witness ==
    /\ got.called
    /\ Len(got.ctx.chain) = 2
    /\ got.ctx.chain[1] = [key |-> "ctxKeyMsgFunc", val |-> "fES"]
    /\ got.ctx.chain[2] = [key |-> "ctxKeyMsgFunc", val |-> "fEmpty"]
    /\ got.fn = "fEmpty"

\* C9: after any sequence of SetMessageFunc calls the global function used by
\* ToFieldErrors is the argument of the most recent call, and
\* SetMessageFunc(nil) restores the built-in default messages.
C9_LatestSetMessageFunc ==
    /\ messageFunc = lastSet.fn
    /\ (call.op = "ToFieldErrors" /\ call.err.type = "validation") =>
          \A i \in 1..Len(call.err.fes) :
              LET fe == call.err.fes[i]
              IN  LastUnderKey(call.err.fes, i) =>
                      call.res.m[ExpectedKey(fe)] =
                          (IF call.hist.fn # Nil /\ Apply(call.hist.fn, fe) # <<>>
                           THEN Apply(call.hist.fn, fe) ELSE defaultMessage(fe))

\* C9 witness: a function was installed, then SetMessageFunc(nil), and
\* ToFieldErrors gave the default message
C9_Witness ==
    /\ call.op = "ToFieldErrors"
    /\ call.hist = [fn |-> Nil, replaced |-> TRUE]
    /\ call.res.m = Put(EmptyMap, <<"n","a","m","e">>, <<"i","s"," ","r","e","q","u","i","r","e","d">>)

\* the function the middleware's configuration yields for a locale
FuncOfLocale(cfg, locale) ==
    IF MessageFuncForApply(cfg.MessageFuncFor, locale) # Nil
    THEN MessageFuncForApply(cfg.MessageFuncFor, locale)
    ELSE MessageFuncForApply(cfg.MessageFuncFor, cfg.DefaultLocale)

\* C10: the message function the middleware attaches is scoped to its
\* request: with two requests of different locales handled concurrently, the
\* context of each request carries, and its handler reads, the function of
\* its own locale; no step of the other request changes it.
C10_RequestScopedFunc ==
    ~mw.noop =>
        \A r \in Requests :
            /\ reqs[r].pc \in {"next", "done"} =>
                  AttachedFunc(reqs[r].ctx) = FuncOfLocale(mw.cfg, reqs[r].locale)
            /\ reqs[r].pc = "done" =>
                  reqs[r].seen = FuncOfLocale(mw.cfg, reqs[r].locale)

\* C10 witness: the handler of the es request ran while the en request was
\* between its middleware and its handler; each handler read its own function
C10_Witness ==
    /\ reqs["r1"].pc = "done"
    /\ reqs["r1"].overlapped
    /\ reqs["r1"].locale = <<"e","s">>
    /\ reqs["r1"].seen = "fES"
    /\ reqs["r2"].pc = "done"
    /\ reqs["r2"].locale = <<"e","n">>
    /\ reqs["r2"].seen = "fEN"


\* the requests the middleware's handler has finished with
Handled(r) == reqs[r].pc \in {"next", "done"}

\* C11: the locale the middleware passes first to MessageFuncFor is, when
\* LocaleFromCtx is configured, its result lowercased if non-empty; when it
\* is not configured, the route param "lang" lowercased if non-empty; in
\* every other case DefaultLocale.  With LocaleFromCtx configured the route
\* param is never consulted, even if LocaleFromCtx returns "".
C11_LocaleResolution ==
    ~mw.noop =>
        \A r \in Requests :
            Handled(r) =>
                LET derived == IF mw.cfg.LocaleFromCtx # Nil THEN reqs[r].hdr ELSE reqs[r].lang
                IN  /\ reqs[r].mfCalls # <<>>
                    /\ Head(reqs[r].mfCalls) =
                          (IF derived # <<>> THEN ToLower(derived) ELSE mw.cfg.DefaultLocale)
                    /\ mw.cfg.LocaleFromCtx # Nil => "Param lang" \notin reqs[r].reads

\* C11 witness: LocaleFromCtx is configured and returned "" for a request
\* whose route param is ES; MessageFuncFor was asked for the default locale
C11_Witness ==
    /\ mw.built
    /\ mw.cfg.LocaleFromCtx = "fromHeader"
    /\ mw.cfg.DefaultLocale = <<"e","n">>
    /\ reqs["r1"].pc = "done"
    /\ reqs["r1"].hdr = <<>>
    /\ reqs["r1"].lang = <<"E","S">>
    /\ Head(reqs["r1"].mfCalls) = <<"e","n">>

\* C12: when MessageFuncFor returns nil for the request's locale and that
\* locale differs from DefaultLocale, the middleware attaches
\* MessageFuncFor(DefaultLocale) to the request context instead;
\* MessageFuncFor is called at most twice per request, and only once when
\* the locale equals DefaultLocale.
C12_FallbackToDefaultLocale ==
    ~mw.noop =>
        \A r \in Requests :
            Handled(r) =>
                LET locale == reqs[r].locale
                    forLocale == MessageFuncForApply(mw.cfg.MessageFuncFor, locale)
                    forDefault == MessageFuncForApply(mw.cfg.MessageFuncFor, mw.cfg.DefaultLocale)
                IN  /\ Len(reqs[r].mfCalls) <= 2
                    /\ locale = mw.cfg.DefaultLocale => Len(reqs[r].mfCalls) = 1
                    /\ forLocale # Nil => Len(reqs[r].mfCalls) = 1
                    /\ (forLocale = Nil /\ locale # mw.cfg.DefaultLocale) =>
                          /\ reqs[r].mfCalls = <<locale, mw.cfg.DefaultLocale>>
                          /\ AttachedFunc(reqs[r].ctx) = forDefault

\* C12 witness: a request for fr, a locale the application has no function
\* for, got the function of the default locale es after two lookups
C12_Witness ==
    /\ mw.built
    /\ mw.cfg.MessageFuncFor = "byLocale"
    /\ reqs["r1"].pc = "done"
    /\ reqs["r1"].mfCalls = <<<<"f","r">>, <<"e","s">>>>
    /\ AttachedFunc(reqs["r1"].ctx) = "fES"
    /\ reqs["r1"].res = Put(EmptyMap, <<"n","a","m","e">>, <<"E","S","_","M","S","G">>)

\* the error every request handler of the middleware model maps
RequestFieldError == FieldError(<<"n","a","m","e">>, <<"N","a","m","e">>, <<"r","e","q","u","i","r","e","d">>, <<>>)

\* C13: when MessageFuncFor is nil, ValidatorI18n is a no-op: it returns the
\* next handler unchanged, no request context gets a message function, and
\* the global message function is not modified even if SetGlobal is true;
\* validation messages then come from the global function or the built-in
\* defaults.
C13_NilMessageFuncForNoOp ==
    (mw.built /\ mw.given.MessageFuncFor = Nil) =>
        /\ mw.noop
        /\ messageFunc = mw.globalBefore
        /\ \A r \in Requests :
              /\ reqs[r].ctx = Background
              /\ reqs[r].mfCalls = <<>>
              /\ reqs[r].pc = "done" =>
                    /\ reqs[r].nextCalls = 1
                    /\ reqs[r].seen = Nil
                    /\ reqs[r].res =
                          Put(EmptyMap, <<"n","a","m","e">>,
                              ExpectedMessage(RequestFieldError, Nil, mw.globalBefore))

\* C13 witness: SetGlobal is true without MessageFuncFor; a request for es
\* was served with the message of the global function installed before
C13_Witness ==
    /\ mw.built
    /\ mw.given.MessageFuncFor = Nil
    /\ mw.given.SetGlobal
    /\ messageFunc = "fReq"
    /\ reqs["r1"].pc = "done"
    /\ reqs["r1"].lang = <<"E","S">>
    /\ reqs["r1"].res = Put(EmptyMap, <<"n","a","m","e">>, <<"R","E","Q","_","M","S","G">>)

\* no locale is derived from the request r
NoLocaleDerived(r) ==
    IF mw.given.LocaleFromCtx # Nil THEN reqs[r].hdr = <<>> ELSE reqs[r].lang = <<>>

\* C14: when DefaultLocale is the empty string and MessageFuncFor is set, the
\* middleware behaves exactly as if DefaultLocale were "en": a request from
\* which no locale is derived calls MessageFuncFor("en"), and SetGlobal
\* installs MessageFuncFor("en").
C14_EmptyDefaultLocaleIsEn ==
    (mw.built /\ mw.given.DefaultLocale = <<>> /\ mw.given.MessageFuncFor # Nil) =>
        LET forEn == MessageFuncForApply(mw.given.MessageFuncFor, <<"e","n">>)
        IN  /\ messageFunc = (IF mw.given.SetGlobal /\ forEn # Nil THEN forEn
                              ELSE mw.globalBefore)
            /\ \A r \in Requests :
                  Handled(r) =>
                      /\ NoLocaleDerived(r) => reqs[r].mfCalls = <<<<"e","n">>>>
                      /\ Len(reqs[r].mfCalls) = 2 => reqs[r].mfCalls[2] = <<"e","n">>
                      /\ AttachedFunc(reqs[r].ctx) = FuncOfLocale(
                             [mw.given EXCEPT !.DefaultLocale = <<"e","n">>], reqs[r].locale)

\* C14 witness: DefaultLocale is "", SetGlobal replaced the installed global
\* function by the en function, and a request without locale was served in en
C14_Witness ==
    /\ mw.built
    /\ mw.given.DefaultLocale = <<>>
    /\ mw.given.SetGlobal
    /\ mw.globalBefore = "fReq"
    /\ messageFunc = "fEN"
    /\ reqs["r1"].pc = "done"
    /\ reqs["r1"].lang = <<>>
    /\ reqs["r1"].hdr = <<>>
    /\ reqs["r1"].mfCalls = <<<<"e","n">>>>
    /\ reqs["r1"].res = Put(EmptyMap, <<"n","a","m","e">>, <<"E","N","_","M","S","G">>)

\* C15: with SetGlobal true, constructing the middleware sets the global
\* message function to MessageFuncFor(DefaultLocale) when that is non-nil and
\* leaves the global untouched when it is nil; a function attached to a
\* request's context still takes precedence over this global for that
\* request.
C15_SetGlobalInstallsDefault ==
    (mw.built /\ mw.given.MessageFuncFor # Nil /\ mw.given.SetGlobal) =>
        LET forDefault == MessageFuncForApply(mw.given.MessageFuncFor, mw.cfg.DefaultLocale)
        IN  /\ messageFunc = (IF forDefault # Nil THEN forDefault ELSE mw.globalBefore)
            /\ \A r \in Requests :
                  (reqs[r].pc = "done" /\ AttachedFunc(reqs[r].ctx) # Nil) =>
                      reqs[r].res =
                          Put(EmptyMap, <<"n","a","m","e">>,
                              Apply(AttachedFunc(reqs[r].ctx), RequestFieldError))

\* C15 witness: SetGlobal installed the en function; the es request was
\* served with the es function of its context
C15_Witness ==
    /\ mw.built
    /\ mw.given.SetGlobal
    /\ mw.cfg.DefaultLocale = <<"e","n">>
    /\ mw.globalBefore = Nil
    /\ messageFunc = "fEN"
    /\ reqs["r2"].pc = "done"
    /\ reqs["r2"].locale = <<"e","s">>
    /\ reqs["r2"].res = Put(EmptyMap, <<"n","a","m","e">>, <<"E","S","_","M","S","G">>)

\* C15 witness of the nil case: MessageFuncFor(DefaultLocale) is nil and the
\* function installed before is still the global one
C15_WitnessUntouched ==
    /\ mw.built
    /\ mw.given.SetGlobal
    /\ mw.given.MessageFuncFor = "never"
    /\ messageFunc = "fReq"

\* the table of built-in messages: tag, text, whether the parameter follows
MessageTable ==
    << <<<<"r","e","q","u","i","r","e","d">>, <<"i","s"," ","r","e","q","u","i","r","e","d">>, FALSE>>,
       <<<<"m","i","n">>, <<"m","u","s","t"," ","b","e"," ","a","t"," ","l","e","a","s","t"," ">>, TRUE>>,
       <<<<"m","a","x">>, <<"m","u","s","t"," ","b","e"," ","a","t"," ","m","o","s","t"," ">>, TRUE>>,
       <<<<"l","e","n">>, <<"m","u","s","t"," ","b","e"," ","l","e","n","g","t","h"," ">>, TRUE>>,
       <<<<"e","m","a","i","l">>, <<"m","u","s","t"," ","b","e"," ","a"," ","v","a","l","i","d"," ","e","m","a","i","l">>, FALSE>>,
       <<<<"o","n","e","o","f">>, <<"m","u","s","t"," ","b","e"," ","o","n","e"," ","o","f"," ">>, TRUE>>,
       <<<<"g","t","e">>, <<"m","u","s","t"," ","b","e"," ","g","r","e","a","t","e","r"," ","t","h","a","n"," ","o","r"," ","e","q","u","a","l"," ","t","o"," ">>, TRUE>>,
       <<<<"l","t","e">>, <<"m","u","s","t"," ","b","e"," ","l","e","s","s"," ","t","h","a","n"," ","o","r"," ","e","q","u","a","l"," ","t","o"," ">>, TRUE>>,
       <<<<"u","r","l">>, <<"m","u","s","t"," ","b","e"," ","a"," ","v","a","l","i","d"," ","U","R","L">>, FALSE>>,
       <<<<"u","u","i","d">>, <<"m","u","s","t"," ","b","e"," ","a"," ","v","a","l","i","d"," ","U","U","I","D">>, FALSE>>,
       <<<<"a","l","p","h","a">>, <<"m","u","s","t"," ","c","o","n","t","a","i","n"," ","o","n","l","y"," ","l","e","t","t","e","r","s">>, FALSE>>,
       <<<<"a","l","p","h","a","n","u","m">>, <<"m","u","s","t"," ","c","o","n","t","a","i","n"," ","o","n","l","y"," ","l","e","t","t","e","r","s"," ","a","n","d"," ","n","u","m","b","e","r","s">>, FALSE>>,
       <<<<"n","u","m","e","r","i","c">>, <<"m","u","s","t"," ","c","o","n","t","a","i","n"," ","o","n","l","y"," ","n","u","m","b","e","r","s">>, FALSE>>,
       <<<<"c","o","n","t","a","i","n","s">>, <<"m","u","s","t"," ","c","o","n","t","a","i","n"," ">>, TRUE>>,
       <<<<"e","x","c","l","u","d","e","s">>, <<"m","u","s","t"," ","n","o","t"," ","c","o","n","t","a","i","n"," ">>, TRUE>>,
       <<<<"s","t","a","r","t","s","w","i","t","h">>, <<"m","u","s","t"," ","s","t","a","r","t"," ","w","i","t","h"," ">>, TRUE>>,
       <<<<"e","n","d","s","w","i","t","h">>, <<"m","u","s","t"," ","e","n","d"," ","w","i","t","h"," ">>, TRUE>>,
       <<<<"b","a","s","e","6","4">>, <<"m","u","s","t"," ","b","e"," ","a"," ","v","a","l","i","d"," ","b","a","s","e","6","4"," ","s","t","r","i","n","g">>, FALSE>>,
       <<<<"j","s","o","n">>, <<"m","u","s","t"," ","b","e"," ","v","a","l","i","d"," ","J","S","O","N">>, FALSE>>,
       <<<<"i","p">>, <<"m","u","s","t"," ","b","e"," ","a"," ","v","a","l","i","d"," ","I","P"," ","a","d","d","r","e","s","s">>, FALSE>>,
       <<<<"c","i","d","r">>, <<"m","u","s","t"," ","b","e"," ","a"," ","v","a","l","i","d"," ","C","I","D","R"," ","n","o","t","a","t","i","o","n">>, FALSE>>,
       <<<<"a","s","c","i","i">>, <<"m","u","s","t"," ","c","o","n","t","a","i","n"," ","o","n","l","y"," ","A","S","C","I","I"," ","c","h","a","r","a","c","t","e","r","s">>, FALSE>>,
       <<<<"p","r","i","n","t","a","s","c","i","i">>, <<"m","u","s","t"," ","c","o","n","t","a","i","n"," ","o","n","l","y"," ","p","r","i","n","t","a","b","l","e"," ","A","S","C","I","I"," ","c","h","a","r","a","c","t","e","r","s">>, FALSE>>,
       <<<<"m","u","l","t","i","b","y","t","e">>, <<"m","u","s","t"," ","c","o","n","t","a","i","n"," ","m","u","l","t","i","b","y","t","e"," ","c","h","a","r","a","c","t","e","r","s">>, FALSE>>,
       <<<<"i","s","c","o","l","o","r">>, <<"m","u","s","t"," ","b","e"," ","a"," ","v","a","l","i","d"," ","c","o","l","o","r">>, FALSE>>,
       <<<<"i","s","b","n">>, <<"m","u","s","t"," ","b","e"," ","a"," ","v","a","l","i","d"," ","I","S","B","N">>, FALSE>>,
       <<<<"i","s","b","n","1","0">>, <<"m","u","s","t"," ","b","e"," ","a"," ","v","a","l","i","d"," ","I","S","B","N","-","1","0">>, FALSE>>,
       <<<<"i","s","b","n","1","3">>, <<"m","u","s","t"," ","b","e"," ","a"," ","v","a","l","i","d"," ","I","S","B","N","-","1","3">>, FALSE>> >>

\* the message the table gives for a tag and a parameter
TableMessage(tag, param) ==
    LET rows == {i \in 1..Len(MessageTable) : MessageTable[i][1] = tag}
    IN  IF rows = {} THEN <<"f","a","i","l","e","d"," ">> \o tag
        ELSE LET row == MessageTable[CHOOSE i \in rows : TRUE]
             IN  IF row[3] THEN row[2] \o param ELSE row[2]

\* C16: with no custom message function in effect, the message for a field
\* error is determined by its tag alone through the fixed table (required ->
\* "is required", min -> "must be at least <param>", ...), and every tag
\* outside the table yields "failed <tag>".
C16_DefaultMessageTable ==
    (Mapped /\ call.err.type = "validation" /\ call.fn = Nil /\ call.gf = Nil) =>
        \A i \in 1..Len(call.err.fes) :
            LET fe == call.err.fes[i]
            IN  LastUnderKey(call.err.fes, i) =>
                    call.res.m[ExpectedKey(fe)] = TableMessage(fe.tag, fe.param)

\* C16 witness: a rule of the table with a parameter was mapped
C16_Witness ==
    /\ call.op = "ToFieldErrors"
    /\ fld = StructField(<<"A","g","e">>, <<"a","g","e">>, <<"s","t","a","r","t","s","w","i","t","h">>, <<"a"," ","b">>)
    /\ call.res.m = Put(EmptyMap, <<"a","g","e">>, <<"m","u","s","t"," ","s","t","a","r","t"," ","w","i","t","h"," ","a"," ","b">>)

\* C16 witness outside the table: a rule that extends a table entry
C16_WitnessOutside ==
    /\ call.op = "ToFieldErrorsWithContext"
    /\ fld.rule = <<"i","s","b","n","1">>
    /\ call.res.m = Put(EmptyMap, <<"N","a","m","e">>, <<"f","a","i","l","e","d"," ","i","s","b","n","1">>)

\* the part of a json tag before its first comma
BeforeComma(s) ==
    LET n == CHOOSE k \in 0..Len(s) :
                 /\ \A i \in 1..k : s[i] # ","
                 /\ k < Len(s) => s[k + 1] = ","
    IN  SubSeq(s, 1, n)

\* the name the claim expects of the tag-name function
ExpectedTagName(json) == IF json = <<>> \/ json = <<"-">> THEN <<>> ELSE BeforeComma(json)

\* C19: the tag-name function registered on the global Validator returns,
\* for every struct field, the json tag name with everything from the first
\* comma on removed, and the empty string when the json tag is absent or is
\* exactly "-"; in the empty case the error key reported by ToFieldErrors is
\* the Go struct field name.
C19_JsonTagName ==
    /\ TagNameFunc(fld) = ExpectedTagName(fld.json)
    /\ input.type = "validation" =>
          input.fes[1].field \in
              {ExpectedTagName(fld.json)}
              \cup (IF ExpectedTagName(fld.json) = <<>> THEN {fld.name} ELSE {})
    /\ (Mapped /\ call.err.type = "validation") =>
          DOMAIN call.res.m =
              {IF ExpectedTagName(fld.json) = <<>> THEN fld.name ELSE ExpectedTagName(fld.json)}

\* C19 witness: a field tagged json:"-" whose error carries an empty Field()
\* was reported under its Go name
C19_Witness ==
    /\ call.op = "ToFieldErrors"
    /\ fld.json = <<"-">>
    /\ fld.name = <<"N","a","m","e">>
    /\ call.err.type = "validation"
    /\ call.err.fes[1].field = <<>>
    /\ DOMAIN call.res.m = {<<"N","a","m","e">>}

\* C19 witness of the options: json:"first_name,string" reported as first_name
C19_WitnessOptions ==
    /\ call.op = "ToFieldErrors"
    /\ fld.json = <<"f","i","r","s","t","_","n","a","m","e",",","s","t","r","i","n","g">>
    /\ DOMAIN call.res.m = {<<"f","i","r","s","t","_","n","a","m","e">>}

\* a field key as the claims describe it: no CR or LF, and after trimming
\* non-empty and made of ASCII letters, digits, '.', '-' and '_' only
IsFieldKey(k) ==
    /\ \A i \in 1..Len(k) : k[i] \notin {"\r", "\n"}
    /\ TrimSpace(k) # <<>>
    /\ \A i \in 1..Len(TrimSpace(k)) :
          TrimSpace(k)[i] \in Range(UpperLetters) \cup Range(LowerLetters) \cup Digits
                              \cup {".", "-", "_"}

\* the entry at position i is the last one of All() under its trimmed key
LastCtxEntry(all, i) ==
    \A j \in (i + 1)..Len(all) :
        IsFieldKey(all[j].field) => TrimSpace(all[j].field) # TrimSpace(all[i].field)

C17_WitnessTrimmed ==
    /\ call.err.type = "ctx"
    /\ call.err.msg = s_field_validation_errors
    /\ call.res.m = Put(EmptyMap, <<"a","g","e">>, s_invalid_type)

\* the value All() gives for a key: that of its last entry under the key
FromAll(all, k) ==
    all[CHOOSE i \in 1..Len(all) :
            /\ IsFieldKey(all[i].field)
            /\ TrimSpace(all[i].field) = k
            /\ LastCtxEntry(all, i)].message

\* C18: for a ctx.FieldErrors error, entries parsed from the aggregated
\* err.Error() text are merged into the result only for keys not already
\* produced from All(): a value that came from All() is never overwritten by
\* a parsed one, and when All() is empty the result is exactly the parsed
\* entries.
C18_ExtrasNeverOverwrite ==
    (Mapped /\ call.err.type = "ctx") =>
        LET all == call.err.all
            parsed == ExpectedEntries(call.err.msg)
            fromAll == {TrimSpace(all[i].field) : i \in {j \in 1..Len(all) : IsFieldKey(all[j].field)}}
        IN  /\ \A k \in DOMAIN parsed :
                  /\ k \in DOMAIN call.res.m
                  /\ call.res.m[k] = (IF k \in fromAll THEN FromAll(all, k) ELSE parsed[k])
            /\ \A k \in fromAll : call.res.m[k] = FromAll(all, k)
            /\ all = <<>> => call.res.m = parsed

\* C18 witness: the text names name and foo, All() holds name: the value of
\* All() was kept and foo was merged
C18_Witness ==
    /\ call.op = "ToFieldErrorsWith"
    /\ call.err = CtxFieldErrors(<<CtxEntry(<<"n","a","m","e">>, <<"f","r","o","m","A","l","l">>)>>, msgTypeAndKeys)
    /\ call.res.m = Put(Put(EmptyMap, <<"n","a","m","e">>, <<"f","r","o","m","A","l","l">>), <<"f","o","o">>, s_unexpected)

\* C18 witness of the empty list: the result is the parsed entries
C18_WitnessOnlyExtras ==
    /\ call.err = CtxFieldErrors(<<>>, msgTypeAndKeys)
    /\ DOMAIN call.res.m = {<<"n","a","m","e">>, <<"f","o","o">>}

\* the entries the claims expect of a text assembled from parts: the first
\* quoted text of a starred line is the field name
CaseEntries(c) ==
    IF ~c.starred \/ c.quoted = <<>> \/ Head(c.quoted) = <<>> THEN EmptyMap
    ELSE Put(EmptyMap, Head(c.quoted),
             IF c.expected # <<>> /\ c.got # <<>>
             THEN <<"e","x","p","e","c","t","e","d"," ">> \o c.expected \o <<" ","b","u","t"," ","g","o","t"," ">> \o c.got
             ELSE <<"i","n","v","a","l","i","d"," ","t","y","p","e">>)

\* C20: parseStructuredErrors looks only at lines that, after trimming, start
\* with "*".  For such a line with a non-empty quoted field name, the field
\* maps to "expected <E> but got <G>" when both an expected type and a got
\* type are found on the line, and to "invalid type" when either is missing;
\* lines without "*" or matching no pattern contribute nothing, so the
\* result is empty for text with no matching line.
C20_ParseTypeErrorLines ==
    Mapped =>
        \A c \in ParseCases :
            c.text = call.err.msg =>
                /\ parseStructuredErrors(c.text) = CaseEntries(c)
                /\ call.err.type = "ctx" => call.res.m = CaseEntries(c)
                /\ call.err.type = "generic" =>
                      call.res.m = (IF CaseEntries(c) = EmptyMap
                                    THEN Put(EmptyMap, s_error, c.text)
                                    ELSE CaseEntries(c))

\* C20 witness: a starred line with field, expected type and got type
C20_Witness ==
    /\ call.op = "ToFieldErrors"
    /\ call.err = CtxFieldErrors(<<>>, <<"1"," ","e","r","r","o","r","(","s",")"," ","d","e","c","o","d","i","n","g",":","\n","\n","*"," ","'","a",".","b","'"," ","e","x","p","e","c","t","e","d"," ","t","y","p","e"," ","'","s","t","r","i","n","g","'",","," ","g","o","t"," ","'","b","o","o","l","'",","," ","v","a","l","u","e">>)
    /\ call.res.m = Put(EmptyMap, <<"a",".","b">>, <<"e","x","p","e","c","t","e","d"," ","s","t","r","i","n","g"," ","b","u","t"," ","g","o","t"," ","b","o","o","l">>)

\* C20 witness of the fallback: the got type is missing
C20_WitnessInvalidType ==
    /\ call.err = GenericError(<<" "," ","\t","*"," ","'","n","a","m","e","'"," ","e","x","p","e","c","t","e","d"," ","t","y","p","e"," ","'","s","t","r","i","n","g","'",","," ","g","o","t">>)
    /\ call.res.m = Put(EmptyMap, <<"n","a","m","e">>, s_invalid_type)

\* C20 witness of an unstarred line: nothing is parsed from it
C20_WitnessNoStar ==
    /\ call.err = CtxFieldErrors(<<>>, <<"e","r","r","o","r",":"," ","*"," ","'","n","a","m","e","'"," ","e","x","p","e","c","t","e","d"," ","t","y","p","e"," ","'","s","t","r","i","n","g","'",","," ","g","o","t"," ","s","t","r","i","n","g">>)
    /\ call.op = "ToFieldErrorsWith"
    /\ call.res.m = EmptyMap

\* the text mapped is that of the assembled case c
ParsedCase(c) == Mapped /\ call.err.type = "ctx" /\ call.err.all = <<>> /\ call.err.msg = c.text

\* the message the claims expect for a key of the case c: that of the
\* type-error line naming it, else "unexpected"
CaseKeyMessage(c, k) ==
    IF \E t \in c.typed : t.key = k
    THEN (CHOOSE t \in c.typed : t.key = k).msg
    ELSE <<"u","n","e","x","p","e","c","t","e","d">>

\* C21 as stated: when a key is named both by a type-error line and by an
\* invalid-keys line its message is the type-error message, never
\* "unexpected", whichever line comes first; a key named only by an
\* invalid-keys line maps to "unexpected".
C21_Original ==
    \A c \in KeyCases :
        ParsedCase(c) =>
            /\ \A t \in c.typed :
                  /\ t.key \in DOMAIN call.res.m
                  /\ call.res.m[t.key] = t.msg
            /\ \A k \in c.keyLine.keys :
                  /\ k \in DOMAIN call.res.m
                  /\ call.res.m[k] = CaseKeyMessage(c, k)

\* C21 for the invalid-keys lines the code does parse, those with an empty
\* quoted prefix: the type-error message wins in both orders, and a key
\* named only by the invalid-keys line maps to "unexpected".
C21_TypeErrorWinsEmptyPrefix ==
    \A c \in KeyCases :
        (ParsedCase(c) /\ c.keyLine.prefix = <<>>) =>
            call.res.m =
                [k \in c.keyLine.keys \cup {t.key : t \in c.typed} |-> CaseKeyMessage(c, k)]

\* C21 witness: the invalid-keys line came first and named foo; the later
\* type-error line replaced "unexpected"
C21_Witness ==
    /\ call.op = "ToFieldErrors"
    /\ \E c \in KeyCases :
          /\ ParsedCase(c)
          /\ c.order = "keysFirst"
          /\ c.keyLine.prefix = <<>>
          /\ c.keyLine.keys = {<<"f","o","o">>, <<"b","a","r">>}
    /\ call.res.m = Put(Put(EmptyMap, <<"f","o","o">>, <<"i","n","v","a","l","i","d"," ","t","y","p","e">>), <<"b","a","r">>, <<"u","n","e","x","p","e","c","t","e","d">>)

\* C22 as stated: an invalid-keys line is handled both with an empty quoted
\* prefix and with a non-empty one: every listed key maps to "unexpected"
\* and the quoted prefix itself is not reported as a field.
C22_Original ==
    \A c \in KeyCases :
        (ParsedCase(c) /\ c.typed = {}) =>
            /\ DOMAIN call.res.m = c.keyLine.keys
            /\ \A k \in c.keyLine.keys : call.res.m[k] = <<"u","n","e","x","p","e","c","t","e","d">>
            /\ c.keyLine.prefix \notin DOMAIN call.res.m

\* C22 for the shape with an empty quoted prefix, the part of the claim the
\* code fulfils
C22_EmptyPrefixKeys ==
    \A c \in KeyCases :
        (ParsedCase(c) /\ c.typed = {} /\ c.keyLine.prefix = <<>>) =>
            call.res.m = [k \in c.keyLine.keys |-> <<"u","n","e","x","p","e","c","t","e","d">>]

\* C22 witness: the line with the prefix 'root' was mapped; root is
\* reported as a field and the listed key is missing
C22_Witness ==
    /\ call.op = "ToFieldErrors"
    /\ call.err = CtxFieldErrors(<<>>, <<"1"," ","e","r","r","o","r","(","s",")"," ","d","e","c","o","d","i","n","g",":","\n","\n","*"," ","'","r","o","o","t","'"," ","h","a","s"," ","i","n","v","a","l","i","d"," ","k","e","y","s",":"," ","f","o","o">>)
    /\ call.res.m = Put(EmptyMap, <<"r","o","o","t">>, <<"i","n","v","a","l","i","d"," ","t","y","p","e">>)

\* the characters of a normalized key
KeyAlphabet == Range(UpperLetters) \cup Range(LowerLetters) \cup Digits \cup {".", "-", "_"}

\* C23: normalizeFieldKey(s) returns either the empty string or
\* strings.TrimSpace(s), never anything else; its non-empty results contain
\* only ASCII letters, digits, '.', '-' and '_'; and it is idempotent:
\* normalizeFieldKey(normalizeFieldKey(s)) = normalizeFieldKey(s).
C23_NormalizeIdempotent ==
    (Mapped /\ call.err.type = "ctx" /\ Len(call.err.all) = 1) =>
        LET s == call.err.all[1].field
            n == normalizeFieldKey(s)
        IN  /\ n \in {<<>>, TrimSpace(s)}
            /\ \A i \in 1..Len(n) : n[i] \in KeyAlphabet
            /\ normalizeFieldKey(n) = n
            /\ call.err.msg = s_field_validation_errors =>
                  /\ DOMAIN call.res.m = (IF n = <<>> THEN {} ELSE {n})
                  /\ \A k \in DOMAIN call.res.m :
                        /\ k = TrimSpace(s)
                        /\ \A i \in 1..Len(k) : k[i] \in KeyAlphabet
                        /\ normalizeFieldKey(k) = k

\* C23 witness: a key with blanks around one character was reported trimmed
C23_Witness ==
    /\ call.op = "ToFieldErrors"
    /\ call.err.type = "ctx"
    /\ Len(call.err.all) = 1
    /\ call.err.all[1].field = <<"\t", "a", " ">>
    /\ DOMAIN call.res.m = {<<"a">>}

\* C23 witness of a rejected key: a blank inside the key
C23_WitnessInnerBlank ==
    /\ call.op = "ToFieldErrors"
    /\ call.err.type = "ctx"
    /\ Len(call.err.all) = 1
    /\ call.err.all[1].field = <<"a", " ", "7">>
    /\ call.res.m = EmptyMap

\* the typed error mapped yields no entries: an empty list of field errors,
\* or a ctx.FieldErrors without usable key and without parseable text
YieldsNoEntries(err) ==
    \/ err.type = "validation" /\ err.fes = <<>>
    \/ /\ err.type = "ctx"
       /\ \A i \in 1..Len(err.all) : ~IsFieldKey(err.all[i].field)
       /\ ExpectedEntries(err.msg) = EmptyMap

\* C24: ToFieldErrorsWith synthesises the _error entry only on the generic
\* path: for an error of type ctx.FieldErrors or validator.ValidationErrors
\* that yields no entries (empty list, no parseable text) the result is the
\* empty map, not {"_error": err.Error()}.
C24_NoErrorKeyForTypedErrors ==
    (Mapped /\ call.err.type \in {"ctx", "validation"}) =>
        /\ YieldsNoEntries(call.err) =>
              /\ ~call.res.isNil
              /\ call.res.m = EmptyMap
        /\ call.err.type = "ctx" => call.res.m # Put(EmptyMap, s_error, call.err.msg)

\* C24 witness: a ctx.FieldErrors with an empty list and a text without
\* parseable line gave the empty map
C24_Witness ==
    /\ call.op = "ToFieldErrorsWith"
    /\ call.err = CtxFieldErrors(<<>>, s_field_validation_errors)
    /\ call.res.m = EmptyMap

\* C24 witness of the validation errors: an empty list gave the empty map
C24_WitnessValidation ==
    /\ call.op = "ToFieldErrors"
    /\ call.err = ValidationErrors(<<>>)
    /\ call.res.m = EmptyMap

\* what has happened to every request so far agrees with one call of next
\* after the locale resolution and an unchanged return value
NextOnceSoFar ==
    \A r \in Requests :
        /\ reqs[r].nextCalls = (IF reqs[r].pc = "done" THEN 1 ELSE 0)
        /\ (Handled(r) /\ ~mw.noop) =>
              /\ reqs[r].mfCalls # <<>>
              /\ reqs[r].locale = Head(reqs[r].mfCalls)
        /\ reqs[r].pc = "done" => reqs[r].ret = reqs[r].herr
        /\ (Handled(r) /\ ~mw.noop
              /\ \A i \in 1..Len(reqs[r].mfCalls) :
                    MessageFuncForApply(mw.cfg.MessageFuncFor, reqs[r].mfCalls[i]) = Nil) =>
              /\ reqs[r].ctx = Background
              /\ reqs[r].pc = "done" => reqs[r].seen = Nil

\* C25: for every request the middleware calls the next handler exactly
\* once, after locale resolution, and returns that handler's error
\* unchanged; this also holds when no message function can be resolved, in
\* which case the request and its context are passed on unmodified.
C25_NextCalledOnce ==
    /\ []NextOnceSoFar
    /\ \A r \in Requests :
          (reqs[r].pc = "middleware") ~> (reqs[r].pc = "done" /\ reqs[r].nextCalls = 1)

\* C25 witness: MessageFuncFor returned nil for fr and for the default
\* locale; next ran once on the untouched context and its error came back
C25_Witness ==
    /\ mw.built
    /\ mw.cfg.MessageFuncFor = "never"
    /\ reqs["r1"].pc = "done"
    /\ reqs["r1"].mfCalls = <<<<"f","r">>, <<"e","n">>>>
    /\ reqs["r1"].ctx = Background
    /\ reqs["r1"].nextCalls = 1
    /\ reqs["r1"].herr = GenericError(<<"w","r","i","t","e"," ","f","a","i","l","e","d">>)
    /\ reqs["r1"].ret = GenericError(<<"w","r","i","t","e"," ","f","a","i","l","e","d">>)

\* C26: every value in the map returned by ToFieldErrorsWith for a
\* validator.ValidationErrors is a non-empty string, whatever the per-call
\* and global message functions return (including the empty string) and
\* whatever the tag is (including an empty tag).
C26_ValidationMessagesNonEmpty ==
    (Mapped /\ call.err.type = "validation") =>
        /\ DOMAIN call.res.m # {} \/ call.err.fes = <<>>
        /\ \A k \in DOMAIN call.res.m : call.res.m[k] # <<>>

\* C26 witness: the per-call and the global function both returned "" for a
\* field error with an empty tag
C26_Witness ==
    /\ call.op = "ToFieldErrorsWith"
    /\ call.fn = "fEmpty"
    /\ call.gf = "fReq"
    /\ call.err = ValidationErrors(<<FieldError(<<>>, <<"A","g","e">>, <<>>, <<>>)>>)
    /\ call.res.calls = <<[f |-> "fEmpty", fe |-> FieldError(<<>>, <<"A","g","e">>, <<>>, <<>>)],
                          [f |-> "fReq", fe |-> FieldError(<<>>, <<"A","g","e">>, <<>>, <<>>)]>>
    /\ call.res.m = Put(EmptyMap, <<"A","g","e">>, <<"f","a","i","l","e","d"," ">>)

\* C27 as stated: when SetMessageFunc runs on one goroutine while
\* ToFieldErrors/ToFieldErrorsWith runs on another, no interleaving makes the
\* mapping call a nil function: the global function that humanMessageWith
\* invokes is the non-nil value it just tested, and each field's message
\* comes from either the old or the new global function.
C27_Original ==
    /\ ~mapper.calledNil
    /\ mapper.calledGlobal =>
          /\ mapper.invoked # Nil
          /\ mapper.invoked = mapper.tested
          /\ mapper.invoked \in mapper.during

\* C27 witness: messageFunc was tested non-nil, SetMessageFunc(nil) ran, and
\* the call went to the nil function
C27_Witness ==
    /\ mapper.pc = "panic"
    /\ mapper.tested = "fES"
    /\ mapper.invoked = Nil
    /\ mapper.calledNil
    /\ messageFunc = Nil

\* C28: ToFieldErrorsWith dispatches on the dynamic type of err itself and
\* never unwraps: a ValidationErrors, FieldErrors or ctx.FieldErrors wrapped
\* inside another error is handled by the generic path (structured-text
\* parse of err.Error(), then _error), and its field entries are not mapped:
\* no message function is called, and a key of the result holds what the
\* text yields, never a message of the wrapped error.
C28_WrappedGoesGenericPath ==
    (call.op \in {"ToFieldErrors", "ToFieldErrorsWith"} /\ call.err.type \in WrappedTypes) =>
        LET parsed == parseStructuredErrors(call.err.msg)
        IN  /\ ~call.res.isNil
            /\ call.res.calls = <<>>
            /\ call.res.m = IF parsed # EmptyMap THEN parsed ELSE Put(EmptyMap, s_error, call.err.msg)
            /\ call.err.type \in {"wrapValidation", "wrapDirect"} =>
                  call.res.m = Put(EmptyMap, s_error, call.err.msg)
            /\ \A i \in 1..Len(call.err.all) :
                  LET k == normalizeFieldKey(call.err.all[i].field)
                  IN  k \in DOMAIN call.res.m => (k \in DOMAIN parsed /\ call.res.m[k] = parsed[k])

\* C28 witness: a wrapped ValidationErrors with two field errors, mapped with
\* a message function, yields the _error entry alone
C28_Witness ==
    /\ call.op = "ToFieldErrorsWith"
    /\ call.fn = "fES"
    /\ call.err.type = "wrapValidation"
    /\ Len(call.err.fes) = 2
    /\ DOMAIN call.res.m = {s_error}
    /\ HasPrefix(call.res.m[s_error], <<"b","i","n","d",":"," ","K","e","y",":"," ","'","N","a","m","e","'"," ","E","r","r","o","r",":","F","i","e","l","d"," ","v","a","l","i","d","a","t","i","o","n"," ","f","o","r"," ","'","n","a","m","e","'"," ","f","a","i","l","e","d"," ","o","n"," ","t","h","e"," ","'","r","e","q","u","i","r","e","d","'"," ","t","a","g","\n","K","e","y",":"," ">>)

\* C28 witness: a wrapped ctx.FieldErrors whose text is a decoder text is
\* parsed from the text, its All() entry is not mapped
C28_WitnessCtx ==
    /\ call.op = "ToFieldErrors"
    /\ call.err.type = "wrapCtx"
    /\ call.err.all = <<CtxEntry(<<"n","a","m","e">>, <<"f","r","o","m","A","l","l">>)>>
    /\ call.err.msg = WrapPrefix \o msgTypeAndKeys
    /\ call.res.m = Put(Put(EmptyMap, <<"n","a","m","e">>, <<"e","x","p","e","c","t","e","d"," ","s","t","r","i","n","g"," ","b","u","t"," ","g","o","t"," ","f","l","o","a","t","6","4">>), <<"f","o","o">>, s_unexpected)

\* the keys the field errors of a list resolve to
KeysOf(fes) == {ExpectedKey(fes[i]) : i \in 1..Len(fes)}

\* C29: for a validator.ValidationErrors the result holds one entry per
\* distinct key: when two field errors resolve to the same key (same Field(),
\* or same StructField() fallback) the message of the later one in slice
\* order replaces the earlier one, so the map size is at most the number of
\* field errors and equals the number of distinct keys.
C29_OneEntryPerDistinctKey ==
    (call.op \in {"ToFieldErrors", "ToFieldErrorsWith"} /\ call.err.type = "validation") =>
        LET fes == call.err.fes
        IN  /\ DOMAIN call.res.m = KeysOf(fes)
            /\ Cardinality(DOMAIN call.res.m) = Cardinality(KeysOf(fes))
            /\ Cardinality(DOMAIN call.res.m) <= Len(fes)
            /\ \A i \in 1..Len(fes) : \A j \in (i + 1)..Len(fes) :
                  (ExpectedKey(fes[i]) = ExpectedKey(fes[j]) /\ LastUnderKey(fes, j)) =>
                      call.res.m[ExpectedKey(fes[i])] = ExpectedMessage(fes[j], call.fn, call.gf)

\* C29 witness: two field errors under one key with different messages; the
\* single entry holds the later one's
C29_Witness ==
    /\ call.op = "ToFieldErrorsWith"
    /\ call.err.type = "validation"
    /\ Len(call.err.fes) = 2
    /\ ExpectedKey(call.err.fes[1]) = ExpectedKey(call.err.fes[2])
    /\ call.err.fes[1].field = <<>>
    /\ ExpectedMessage(call.err.fes[1], call.fn, call.gf) # ExpectedMessage(call.err.fes[2], call.fn, call.gf)
    /\ Cardinality(DOMAIN call.res.m) = 1
    /\ call.res.m[ExpectedKey(call.err.fes[1])] = ExpectedMessage(call.err.fes[2], call.fn, call.gf)
====
